---- MODULE Spec2Model ----
(***************************************************************************)
(* Model of the task-messenger manager core: the awaitable task pool       *)
(* (message/TaskMessagePool.cpp), the per-connection session coroutine     *)
(* (manager/session/Session.cpp) and the threads that call into them: the  *)
(* producer, the caller of TaskMessagePool::shutdown() and the caller of   *)
(* Session::request_termination().  Three components are specified on      *)
(* their own: the task generator with its id counter                       *)
(* (manager/TaskGenerator), the TaskMessage buffer (message/TaskMessage)   *)
(* and the server's acceptor thread with start() and stop()                *)
(* (manager/transport/AsyncTransportServer).                               *)
(*                                                                         *)
(* Granularity.  Every mutex-protected critical section is one step; every *)
(* load or store of an atomic outside a critical section is a step of its  *)
(* own.  handle.resume() runs the resumed coroutine on the resumer's       *)
(* thread: the resumer's next step is enabled only once that coroutine is  *)
(* suspended again (or finished).  await_resume and the statements after   *)
(* it up to the first await touch only the resumed coroutine's frame; they *)
(* are part of the step that resumes it.                                   *)
(***************************************************************************)
EXTENDS Integers, Sequences, FiniteSets, TLC

\* ---- bounds of the model ----
NumSessions == 2
MaxTasks == 2
MaxBatch == 2
MaxFaults == 1
MaxTerminations == 1
\* width of the task id counter (std::atomic<uint32_t> in the program) and the
\* number of ids the generator is asked for: enough for the counter to wrap
IdBits == 2
MaxGenerated == 4
\* width of TaskHeader::body_size (uint32_t in the program)
SizeBits == 3
\* connections offered to the listening socket
MaxClients == 2
\* worker threads of the I/O context, operations registered with it, work guards
\* taken, and the width of PendingOp::attempts (uint16_t in the program)
NumThreads == 2
MaxOps == 3
MaxGuards == 1
AttemptBits == 2
\* frames the manager sends to the worker, and calls of start_runtime,
\* pause_runtime and disconnect_runtime by the worker's user
MaxFrames == 2
MaxCommands == 2
\* skill ids, handler objects ever created, threads calling dispatch, and the
\* calls each of them makes
NumSkills == 2
MaxHandlers == 2
NumDispatchers == 2
MaxDispatches == 1

\* the pool with its mutex: consumers, their awaits, the producer's calls
NumConsumers == 2
MaxAwaits == 2
MaxAdds == 1
\* the longest vector handed to add_tasks
MaxVec == 2
\* the statistics of the I/O context: categories of operations, the buckets of a
\* histogram (max_tracked_attempts_ = 2^10 in the program), the times an
\* operation's predicate fails, the operations completed
NumCategories == 2
TrackBits == 1
MaxTries == 4
MaxCompletions == 3
MaxReplies == 3
MaxBody == 2

Sessions == 1..NumSessions
NoSession == 0

\* ---- values ----
\* sizeof(TaskHeader): three uint32_t fields
kHeaderSize == 12
\* the largest body a peer accepts in one frame (16 * 1024 * 1024)
max_frame_size == 16777216

\* TaskMessage{}: zeroed header, no payload
InvalidTask == [task_id |-> 0, skill_id |-> 0, payload |-> <<>>]
\* std::optional<TaskMessage> without a value
NoResult == [has |-> FALSE, value |-> InvalidTask]
\* TaskHeader response{}
NoResponse == [task_id |-> 0, skill_id |-> 0, body_size |-> 0]

VARIABLES
    pool,    \* TaskMessagePool: shutdown_, tasks_, waiting_sessions_
    sess,    \* per session: the Session object, its socket and its coroutine frame
    prod,    \* the producer thread (TaskGenerator / SessionManager::enqueue_tasks)
    stop,    \* the thread calling TaskMessagePool::shutdown()
    term,    \* the thread calling Session::request_termination()
    hist,    \* history: what the pool accepted and handed out, what was completed
    gen,     \* DefaultTaskGenerator: its TaskIdGenerator's counter_, ids handed out
    msg,     \* one TaskMessage object: its header's body_size and its payload bytes
    srv,     \* AsyncTransportServer: running_, its acceptor thread, the caller of stop()
    io,      \* CoroIoContext: running_, outstanding_work_, pending_ops_, its threads
    wrk,     \* a worker: WorkerSession's control loop, its BlockingRuntime and socket
    reg,     \* SkillRegistry: skills_, the handler objects, the threads in dispatch
    mx,      \* TaskMessagePool with its mutex_: who holds it, who is inside a resume()
    eq,      \* two pools side by side: one fed by add_tasks, one by repeated add_task
    stats,   \* CoroIoContext's statistics: one operation's attempts, the histograms
    lk,      \* the manager's mutexes: who holds each, what each thread has still to do
    fr       \* one connection's response stream: the frames sent, the session's position

\* the components specified on their own further down: the steps of the pool, the
\* sessions and their callers leave them alone
aux == <<gen, msg, srv, io, wrk, reg, mx, eq, stats, lk, fr>>
vars == <<pool, sess, prod, stop, term, hist, gen, msg, srv, io, wrk, reg, mx, eq, stats, lk, fr>>
\* the pool, the sessions and the threads calling into them
core == <<pool, sess, prod, stop, term, hist>>

\* ---- TaskMessage ----
is_valid(t) == t.task_id # 0

\* ---- the pool's containers ----
\* tasks_.front()
tasks_front_m(T) == T[Len(T)]
tasks_front(T) == Head(T)

\* tasks_.pop_front()
tasks_pop_front_m(T) == SubSeq(T, 1, Len(T) - 1)
tasks_pop_front(T) == Tail(T)

\* tasks_.push_back(task)
tasks_push_back(T, t) == Append(T, t)

\* waiting_sessions_.front()
waiters_front_m(W) == W[Len(W)]
waiters_front(W) == Head(W)

\* waiting_sessions_.pop()
waiters_pop(W) == Tail(W)

\* add_task / add_tasks: "if (!waiting_sessions_.empty())"
has_waiter_m(W) == FALSE
has_waiter(W) == W # <<>>

\* add_task / add_tasks: "waiter.awaiter->result_ = std::move(task)"
hand_off(t) == [has |-> TRUE, value |-> t]

\* await_suspend under the lock: "if (pool_->shutdown_.load())"
suspend_sees_shutdown_m(sd) == FALSE
suspend_sees_shutdown(sd) == sd

\* await_suspend under the lock: "if (!pool_->tasks_.empty())"
suspend_sees_task_m(T) == FALSE
suspend_sees_task(T) == T # <<>>

\* shutdown: "std::swap(waiters_to_resume, waiting_sessions_)", the local's new value
swap_waiters(W) == W

\* TaskAwaitable::await_resume
await_resume(r) == IF r.has THEN r.value ELSE InvalidTask

\* ---- Session ----
\* Session::is_active
is_active(sr) ==
    /\ sr.state_ \in {"ACTIVE", "COMPLETING"}
    /\ sr.sock_open
    /\ ~sr.termination_requested_

\* Session::is_completed
is_completed(sr) == sr.state_ \in {"TERMINATED", "ERROR_STATE"}

\* run_coroutine: "if (response.task_id != task.task_id())", negated
correlation_ok(r, t) == r.task_id = t.task_id

\* run_coroutine: "if (response.skill_id == wire_header.skill_id)"
skill_ok_m(r, t) == TRUE
skill_ok(r, t) == r.skill_id = t.skill_id

\* run_coroutine: the copy of the session's task that add_task(task) receives
requeue_copy(t) == t

\* run_coroutine, catch (const std::system_error&): the state a code leads to
\* ("lost": not_connected, connection_reset, connection_aborted, bad_file_descriptor)
state_after_error(e) == IF e = "lost" THEN "TERMINATED" ELSE "ERROR_STATE"

\* run_coroutine from "task = co_await ..." (await_resume) to the first await on
\* the socket: is_valid check, record_task_sent
Resumed(sr, cell) ==
    LET t == await_resume(cell) IN
    IF is_valid(t)
    THEN [sr EXCEPT !.task = t, !.stats_.tasks_sent = @ + 1, !.pc = "write_header"]
    ELSE [sr EXCEPT !.task = t, !.pc = "exit"]

\* the I/O context drops a completed operation from pending_ops_ and
\* try_complete_current_operation sets current_operation_ = NONE
complete_operation_m(sr) == sr
complete_operation(sr) == [sr EXCEPT !.io_pending = FALSE]

\* the coroutine of s is suspended or finished: the thread that resumed it has returned
Suspended(s) ==
    IF s = NoSession THEN TRUE
    ELSE sess[s].pc \in {"waiting", "done"} \/ sess[s].io_pending

\* ---- the generator's tasks and the workers' answers ----
\* the task made for an id: skills cycle through 1..3; odd ids carry a payload, even
\* ids none (add_task takes any TaskMessage)
NewTask(id) == [task_id |-> id,
                skill_id |-> ((id - 1) % 3) + 1,
                payload |-> IF id % 2 = 1 THEN <<7>> ELSE <<>>]

\* the response headers a session may read for request t; a wrong header carries
\* an id no task of the run has, another skill, a body_size above max_frame_size,
\* or several of these
CorrectResponses(t) ==
    [task_id : {t.task_id}, skill_id : {t.skill_id}, body_size : {0, 1}]
WrongResponses(t) ==
    [task_id : {t.task_id, t.task_id + MaxTasks}, skill_id : {t.skill_id, t.skill_id + 1},
     body_size : {0, 1, max_frame_size + 1}]
        \ CorrectResponses(t)

\* ---- history ----
Ids(ts) == [i \in 1..Len(ts) |-> ts[i].task_id]
IdSet(ts) == {ts[i].task_id : i \in 1..Len(ts)}
CellTasks(cell) == IF cell.has THEN <<cell.value>> ELSE <<>>

\* a critical section of the pool accepted newAdded and handed out newDelivered, in
\* this order.  The order is recorded while every task came through add_task and
\* no add found a consumer suspended (premiseBroken otherwise).
Noted(h, newAdded, premiseBroken, newDelivered) ==
    LET ok == h.fifo_premise /\ ~premiseBroken IN
    [h EXCEPT !.fifo_premise = ok,
              !.added = IF ok THEN @ \o Ids(newAdded) ELSE <<>>,
              !.delivered = IF ok THEN @ \o Ids(newDelivered) ELSE <<>>,
              !.accepted = @ \cup IdSet(newAdded)]

\* TaskMessage(): a zeroed header and no payload
InitMsg == [body_size |-> 0, payload |-> <<>>]

\* AsyncTransportServer before start(): running_ false, no acceptor thread, no
\* connection.  backlog: connections waiting on the listening socket, offered: all
\* connections made so far; late_returns counts the blocking_accept calls that
\* returned after stop() stored running_ = false; live and completed count the
\* sessions in the session manager's active_sessions_ whose state is not terminal
\* and terminal
InitSrv == [running_ |-> FALSE, ctl |-> "init", acc |-> "none", listening |-> FALSE,
            ec |-> FALSE, active_connections_ |-> 0, backlog |-> 0, offered |-> 0,
            late_returns |-> 0, live |-> 0, completed |-> 0]

\* CoroIoContext after construction: not started, nothing pending.  thr is each
\* thread's position in run() with its thread_local fetched and requeue vectors;
\* registered counts the calls of register_pending, and predicate_true and resumes
\* record per operation whether try_complete returned true and how often its
\* handle was resumed; late_resumes counts the resumes made with running_ false.
IoThreads == 1..NumThreads

\* WorkerSession after construction with a BlockingRuntime: start_requested_{true},
\* connection_status_{"Disconnected"}, no socket yet.  sock is the runtime's
\* ZeroTierSocket once created; ui is the thread calling WorkerSession::shutdown().
NoFrame == [task_id |-> 0, skill_id |-> 0, payload |-> <<>>]
NoSocket == [exists |-> FALSE, fd_open |-> FALSE, is_connected_ |-> FALSE,
             shutdown_requested_ |-> FALSE]

\* SkillRegistry after construction: skills_ is empty.  skills_[id] is the handler
\* object the descriptor of id owns (NoHandler: no entry); alive is the set of
\* handler objects not yet destroyed; disp is each dispatching thread's position,
\* its raw handler pointer and what its call ended with.
SkillIds == 1..NumSkills
Dispatchers == 1..NumDispatchers
NoHandler == 0

\* the threads of the pool-with-mutex model: each consumer coroutine runs on a thread
\* of its own, one thread produces, one calls shutdown().  There tasks_ is kept as
\* the number of queued tasks: the tasks' contents play no part.
Consumers == 1..NumConsumers
Producer == NumConsumers + 1
Stopper == NumConsumers + 2
PoolThreads == 1..(NumConsumers + 2)
NoOwner == 0

Init ==
    /\ pool = [shutdown_ |-> FALSE, tasks_ |-> <<>>, waiting_sessions_ |-> <<>>]
    /\ sess = [s \in Sessions |->
                 [pc |-> "init", state_ |-> "INITIALIZING",
                  termination_requested_ |-> FALSE,
                  task |-> InvalidTask, response |-> NoResponse,
                  stats_ |-> [tasks_sent |-> 0, tasks_completed |-> 0, tasks_failed |-> 0],
                  err |-> "none", resumee |-> NoSession,
                  sock_open |-> TRUE, sock_shutdown |-> FALSE, io_pending |-> FALSE,
                  sent |-> 0]]
    /\ prod = [pc |-> "idle", vec |-> <<>>, resumee |-> NoSession, next_id |-> 1]
    /\ stop = [pc |-> "idle", waiters_to_resume |-> <<>>, resumee |-> NoSession]
    /\ term = [pc |-> "idle", target |-> NoSession, calls |-> 0]
    /\ hist = [accepted |-> {}, completed |-> [s \in Sessions |-> <<>>],
               added |-> <<>>, delivered |-> <<>>, fifo_premise |-> TRUE, faults |-> 0]
    /\ gen = [counter_ |-> 1, made |-> 0]
    /\ msg = InitMsg
    /\ srv = InitSrv
    /\ io = [running_ |-> FALSE, outstanding_work_ |-> 0, pending_ops_ |-> <<>>,
             thr |-> [t \in IoThreads |-> [pc |-> "none", fetched |-> <<>>, requeue |-> <<>>]],
             ctl |-> "init", joined |-> 0, guards |-> 0, registered |-> 0, late_resumes |-> 0,
             predicate_true |-> [o \in 1..MaxOps |-> FALSE],
             resumes |-> [o \in 1..MaxOps |-> 0]]
    /\ wrk = [pc |-> "while", ui |-> "idle",
              start_requested_ |-> TRUE, disconnect_requested_ |-> FALSE,
              shutdown_requested_ |-> FALSE, pause_requested_ |-> FALSE,
              connection_status_ |-> "Disconnected", sock |-> NoSocket,
              header |-> NoFrame, result |-> <<>>, response |-> NoFrame,
              tasks_completed_ |-> 0, frames |-> 0, commands |-> 0, issued |-> <<>>,
              paused_at |-> 0, success |-> TRUE]
    /\ reg = [skills_ |-> [k \in SkillIds |-> NoHandler], alive |-> {}, created |-> 0,
              disp |-> [d \in Dispatchers |->
                          [pc |-> "idle", skill_id |-> 0, handler |-> NoHandler,
                           outcome |-> "none", calls |-> 0]]]
    /\ mx = [mutex_ |-> NoOwner, shutdown_ |-> FALSE, tasks_ |-> 0,
             waiting_sessions_ |-> <<>>,
             pc |-> [t \in PoolThreads |-> "idle"],
             awaits |-> [c \in Consumers |-> 0],
             calls |-> 0, vec |-> 0,
             waiters_to_resume |-> <<>>,
             resumee |-> [t \in PoolThreads |-> NoOwner]]
    /\ stats = [pc |-> "none", op |-> [attempts |-> 0, category |-> 0], failures |-> 0,
             completion_attempt_histograms_ |->
                 [c \in 0..NumCategories - 1 |-> [b \in 0..2 ^ TrackBits - 1 |-> 0]],
             total_operations_processed_ |-> 0]
    /\ fr = [pc |-> "write", requests |-> 0, sent |-> <<>>, pos |-> 0,
             response |-> [task_id |-> 0, body_size |-> 0]]
    /\ lk = [held |-> [m \in {"mutex_", "sessions_mutex_", "pending_mutex_",
                                "stats_mutex_"} |-> "none"],
             todo |-> [t \in {"producer", "acceptor", "io", "stats"} |-> <<>>]]
    /\ eq = LET NewPool == [shutdown_ |-> FALSE, tasks_ |-> <<>>,
                            waiting_sessions_ |-> <<>>,
                            got |-> [c \in Consumers |-> <<>>],
                            pc |-> "idle", idx |-> 0, locked |-> FALSE]
            IN [v |-> <<>>, batch |-> NewPool, single |-> NewPool, stop |-> "idle",
                awaits |-> [c \in Consumers |-> 0]]

\* ---- TaskMessagePool: the critical sections of add_task and add_tasks ----
add_task_locked(t, W, T) ==
    IF has_waiter(W)
    THEN [waiter |-> waiters_front(W), W |-> waiters_pop(W), T |-> T, cell |-> hand_off(t)]
    ELSE [waiter |-> NoSession, W |-> W, T |-> tasks_push_back(T, t), cell |-> NoResult]

\* the for loop of add_tasks up to its first unlock (a hand-off) or its end
RECURSIVE add_tasks_locked(_, _, _)
add_tasks_locked(v, W, T) ==
    IF v = <<>>
    THEN [waiter |-> NoSession, W |-> W, T |-> T, cell |-> NoResult, rest |-> <<>>]
    ELSE IF has_waiter(W)
         THEN [waiter |-> waiters_front(W), W |-> waiters_pop(W), T |-> T,
               cell |-> hand_off(Head(v)), rest |-> Tail(v)]
         ELSE add_tasks_locked(Tail(v), W, tasks_push_back(T, Head(v)))

\* ---- Session::run_coroutine ----
IoPcs == {"write_header", "write_payload", "read_header", "read_body"}

\* Session::run: the coroutine starts eagerly, "update_state(SessionState::ACTIVE)"
Run(s) ==
    /\ sess[s].pc = "init"
    /\ sess' = [sess EXCEPT ![s].state_ = "ACTIVE", ![s].pc = "loop"]
    /\ UNCHANGED <<pool, prod, stop, term, hist, aux>>

\* "while (is_active() && !termination_requested_.load())"; the iteration's locals
LoopCheck(s) ==
    /\ sess[s].pc = "loop"
    /\ sess' = [sess EXCEPT
                  ![s].pc = IF is_active(sess[s]) /\ ~sess[s].termination_requested_
                            THEN "ready" ELSE "exit",
                  ![s].task = InvalidTask,
                  ![s].response = NoResponse,
                  ![s].err = "none",
                  ![s].sent = 0]
    /\ UNCHANGED <<pool, prod, stop, term, hist, aux>>

\* await_ready -> try_get_task_immediately: "if (shutdown_.load()) return false"
TryGetCheck(s) ==
    /\ sess[s].pc = "ready"
    /\ sess' = [sess EXCEPT ![s].pc = IF pool.shutdown_ THEN "suspend" ELSE "ready_lock"]
    /\ UNCHANGED <<pool, prod, stop, term, hist, aux>>

\* try_get_task_immediately under the lock; with a task the coroutine does not suspend
TryGetLocked(s) ==
    /\ sess[s].pc = "ready_lock"
    /\ IF pool.tasks_ = <<>>
       THEN /\ sess' = [sess EXCEPT ![s].pc = "suspend"]
            /\ UNCHANGED <<pool, hist>>
       ELSE LET t == tasks_front(pool.tasks_) IN
            /\ pool' = [pool EXCEPT !.tasks_ = tasks_pop_front(pool.tasks_)]
            /\ sess' = [sess EXCEPT ![s] = Resumed(@, [has |-> TRUE, value |-> t])]
            /\ hist' = Noted(hist, <<>>, FALSE, <<t>>)
    /\ UNCHANGED <<prod, stop, term, aux>>

\* await_suspend: "if (pool_->shutdown_.load()) { handle.resume(); return; }"
AwaitSuspendCheck(s) ==
    /\ sess[s].pc = "suspend"
    /\ sess' = [sess EXCEPT ![s] = IF pool.shutdown_ THEN Resumed(@, NoResult)
                                   ELSE [@ EXCEPT !.pc = "suspend_lock"]]
    /\ UNCHANGED <<pool, prod, stop, term, hist, aux>>

\* await_suspend under the lock: shutdown check, deque check, registration
AwaitSuspendLocked(s) ==
    /\ sess[s].pc = "suspend_lock"
    /\ IF suspend_sees_shutdown(pool.shutdown_)
       THEN /\ sess' = [sess EXCEPT ![s] = Resumed(@, NoResult)]
            /\ UNCHANGED <<pool, hist>>
       ELSE IF suspend_sees_task(pool.tasks_)
       THEN LET t == tasks_front(pool.tasks_) IN
            /\ pool' = [pool EXCEPT !.tasks_ = tasks_pop_front(pool.tasks_)]
            /\ sess' = [sess EXCEPT ![s] = Resumed(@, [has |-> TRUE, value |-> t])]
            /\ hist' = Noted(hist, <<>>, FALSE, <<t>>)
       ELSE /\ pool' = [pool EXCEPT !.waiting_sessions_ = Append(@, s)]
            /\ sess' = [sess EXCEPT ![s].pc = "waiting"]
            /\ UNCHANGED hist
    /\ UNCHANGED <<prod, stop, term, aux>>

\* an await on the socket whose try_* would block: the operation is registered
\* with the I/O context and the coroutine suspends
IoWouldBlock(s) ==
    /\ sess[s].pc \in IoPcs
    /\ ~sess[s].io_pending
    /\ sess' = [sess EXCEPT ![s].io_pending = TRUE]
    /\ UNCHANGED <<pool, prod, stop, term, hist, aux>>

\* header_span.size(), payload_span.size(): the size the pending async_write passes
write_size(sr) == IF sr.pc = "write_header" THEN kHeaderSize ELSE Len(sr.task.payload)

\* try_write completes without error having transferred n bytes; await_resume
\* returns n, its caller discards the value and goes on to the next await
written(sr, n) ==
    [complete_operation(sr) EXCEPT
        !.sent = @ + n,
        !.pc = IF @ = "write_header" /\ sr.task.payload # <<>>
               THEN "write_payload" ELSE "read_header"]

\* async_write of the header, then of a non-empty payload: zts_send takes all bytes
WriteOk(s) ==
    /\ sess[s].pc \in {"write_header", "write_payload"}
    /\ sess' = [sess EXCEPT ![s] = written(@, write_size(@))]
    /\ UNCHANGED <<pool, prod, stop, term, hist, aux>>

\* async_write where zts_send takes only n bytes, fewer than asked (result >= 0)
WriteShort(s, n) ==
    /\ sess[s].pc \in {"write_header", "write_payload"}
    /\ n < write_size(sess[s])
    /\ hist.faults < MaxFaults
    /\ sess' = [sess EXCEPT ![s] = written(@, n)]
    /\ hist' = [hist EXCEPT !.faults = @ + 1]
    /\ UNCHANGED <<pool, prod, stop, term, aux>>

\* "Check response success": record_task_completed, or record_task_failed and requeue
Classified(sr, r) ==
    IF skill_ok(r, sr.task)
    THEN [sr EXCEPT !.stats_.tasks_completed = @ + 1, !.response = r, !.pc = "loop"]
    ELSE [sr EXCEPT !.stats_.tasks_failed = @ + 1, !.response = NoResponse,
                    !.pc = "requeue"]

\* async_read_header completes without error with header r: correlation check,
\* body read if body_size > 0, else classification
ReadHeaderOk(s, r) ==
    /\ sess[s].pc = "read_header"
    /\ IF r \in CorrectResponses(sess[s].task) THEN TRUE ELSE hist.faults < MaxFaults
    /\ LET sr == complete_operation(sess[s])
           nx == IF ~correlation_ok(r, sr.task)
                 THEN [sr EXCEPT !.stats_.tasks_failed = @ + 1, !.pc = "requeue"]
                 ELSE IF r.body_size > 0
                 THEN [sr EXCEPT !.response = r, !.pc = "read_body"]
                 ELSE Classified(sr, r)
       IN /\ sess' = [sess EXCEPT ![s] = nx]
          /\ hist' = [hist EXCEPT
                        !.completed[s] = IF nx.stats_.tasks_completed > sr.stats_.tasks_completed
                                         THEN Append(@, sr.task.task_id) ELSE @,
                        !.faults = IF r \in CorrectResponses(sr.task) THEN @ ELSE @ + 1]
    /\ UNCHANGED <<pool, prod, stop, term, aux>>

\* async_read of the response body completes without error: classification
ReadBodyOk(s) ==
    /\ sess[s].pc = "read_body"
    /\ LET sr == complete_operation(sess[s])
           nx == Classified(sr, sr.response)
       IN /\ sess' = [sess EXCEPT ![s] = nx]
          /\ hist' = [hist EXCEPT
                        !.completed[s] = IF nx.stats_.tasks_completed > sr.stats_.tasks_completed
                                         THEN Append(@, sr.task.task_id) ELSE @]
    /\ UNCHANGED <<pool, prod, stop, term, aux>>

\* an await on the socket completes with last_error_ set: await_resume throws
\* std::system_error, caught at "catch (const std::system_error& e)"
IoError(s, e) ==
    /\ sess[s].pc \in IoPcs
    /\ hist.faults < MaxFaults
    /\ sess' = [sess EXCEPT ![s] = [complete_operation(@) EXCEPT
                                      !.err = e, !.response = NoResponse,
                                      !.pc = "requeue"]]
    /\ hist' = [hist EXCEPT !.faults = @ + 1]
    /\ UNCHANGED <<pool, prod, stop, term, aux>>

\* "response_body.resize(response.body_size)" throws (std::bad_alloc):
\* caught at "catch (const std::exception& e)"
ResizeThrows(s) ==
    /\ sess[s].pc = "read_body"
    /\ ~sess[s].io_pending
    /\ hist.faults < MaxFaults
    /\ sess' = [sess EXCEPT ![s].err = "exception", ![s].response = NoResponse,
                            ![s].pc = "requeue"]
    /\ hist' = [hist EXCEPT !.faults = @ + 1]
    /\ UNCHANGED <<pool, prod, stop, term, aux>>

\* ---- the session's requeue: "shared_task_pool_->add_task(task)" ----
\* what follows add_task's return: "continue" after a mismatch; in the catch
\* blocks record_task_failed, then "continue" or the state change
after_add_task_m(sr) ==
    IF sr.err = "exception" THEN [sr EXCEPT !.pc = "loop"]
    ELSE IF sr.err = "none" THEN [sr EXCEPT !.pc = "loop"]
    ELSE [sr EXCEPT !.pc = "io_failed"]
after_add_task(sr) ==
    IF sr.err = "none" THEN [sr EXCEPT !.pc = "loop"]
    ELSE IF sr.err = "exception"
    THEN [sr EXCEPT !.stats_.tasks_failed = @ + 1, !.pc = "loop"]
    ELSE [sr EXCEPT !.stats_.tasks_failed = @ + 1, !.pc = "io_failed"]

\* add_task: "if (shutdown_.load()) return"
RequeueCheck(s) ==
    /\ sess[s].pc = "requeue"
    /\ sess' = [sess EXCEPT ![s] = IF pool.shutdown_ THEN after_add_task(@)
                                   ELSE [@ EXCEPT !.pc = "requeue_lock"]]
    /\ UNCHANGED <<pool, prod, stop, term, hist, aux>>

\* add_task under the lock; a hand-off resumes the front waiter on this thread
RequeueLocked(s) ==
    /\ sess[s].pc = "requeue_lock"
    /\ LET t == requeue_copy(sess[s].task)
           r == add_task_locked(t, pool.waiting_sessions_, pool.tasks_)
       IN /\ pool' = [pool EXCEPT !.tasks_ = r.T, !.waiting_sessions_ = r.W]
          /\ hist' = Noted(hist, <<t>>, pool.waiting_sessions_ # <<>>, CellTasks(r.cell))
          /\ sess' = IF r.waiter = NoSession
                     THEN [sess EXCEPT ![s] = after_add_task(@)]
                     ELSE [sess EXCEPT ![s].pc = "requeue_resume",
                                       ![s].resumee = r.waiter,
                                       ![r.waiter] = Resumed(@, r.cell)]
    /\ UNCHANGED <<prod, stop, term, aux>>

\* "waiter.handle.resume()" returns to add_task, add_task returns
RequeueResumed(s) ==
    /\ sess[s].pc = "requeue_resume"
    /\ Suspended(sess[s].resumee)
    /\ sess' = [sess EXCEPT ![s] = after_add_task([@ EXCEPT !.resumee = NoSession])]
    /\ UNCHANGED <<pool, prod, stop, term, hist, aux>>

\* catch (const std::system_error&): update_state(TERMINATED) or update_state(ERROR_STATE)
IoFailed(s) ==
    /\ sess[s].pc = "io_failed"
    /\ sess' = [sess EXCEPT ![s].state_ = state_after_error(sess[s].err),
                            ![s].pc = "finalize"]
    /\ UNCHANGED <<pool, prod, stop, term, hist, aux>>

\* after the loop: "update_state(SessionState::TERMINATED)"
LoopExit(s) ==
    /\ sess[s].pc = "exit"
    /\ sess' = [sess EXCEPT ![s].state_ = "TERMINATED", ![s].pc = "finalize"]
    /\ UNCHANGED <<pool, prod, stop, term, hist, aux>>

\* Session::finalize_session, then co_return (the loop's locals are gone)
Finalize(s) ==
    /\ sess[s].pc = "finalize"
    /\ sess' = [sess EXCEPT ![s].sock_shutdown = TRUE, ![s].sock_open = FALSE,
                            ![s].task = InvalidTask, ![s].response = NoResponse,
                            ![s].err = "none", ![s].sent = 0, ![s].pc = "done"]
    /\ UNCHANGED <<pool, prod, stop, term, hist, aux>>

\* ---- the producer thread ----
\* the effect of a hand-off on the woken consumer
Woken(w, cell) ==
    IF w = NoSession THEN sess ELSE [sess EXCEPT ![w] = Resumed(@, cell)]

\* the producer makes a task and calls add_task: "if (shutdown_.load()) return"
AddTaskCheck ==
    /\ prod.pc = "idle"
    /\ prod.next_id <= MaxTasks
    /\ prod' = IF pool.shutdown_
               THEN [prod EXCEPT !.next_id = @ + 1]
               ELSE [prod EXCEPT !.next_id = @ + 1, !.vec = <<NewTask(prod.next_id)>>,
                                 !.pc = "add_task_lock"]
    /\ UNCHANGED <<pool, sess, stop, term, hist, aux>>

\* add_task under the lock; a hand-off resumes the front waiter on this thread
AddTaskLocked ==
    /\ prod.pc = "add_task_lock"
    /\ LET r == add_task_locked(prod.vec[1], pool.waiting_sessions_, pool.tasks_) IN
       /\ pool' = [pool EXCEPT !.tasks_ = r.T, !.waiting_sessions_ = r.W]
       /\ hist' = Noted(hist, prod.vec, pool.waiting_sessions_ # <<>>, CellTasks(r.cell))
       /\ sess' = Woken(r.waiter, r.cell)
       /\ prod' = [prod EXCEPT !.vec = <<>>, !.resumee = r.waiter,
                               !.pc = IF r.waiter = NoSession THEN "idle"
                                      ELSE "add_task_resume"]
    /\ UNCHANGED <<stop, term, aux>>

\* "waiter.handle.resume()" returns to add_task
AddTaskResumed ==
    /\ prod.pc = "add_task_resume"
    /\ Suspended(prod.resumee)
    /\ prod' = [prod EXCEPT !.resumee = NoSession, !.pc = "idle"]
    /\ UNCHANGED <<pool, sess, stop, term, hist, aux>>

\* the producer makes k tasks and calls add_tasks (SessionManager::enqueue_tasks):
\* "if (shutdown_.load()) return"
AddTasksCheck(k) ==
    /\ prod.pc = "idle"
    /\ prod.next_id + k - 1 <= MaxTasks
    /\ prod' = IF pool.shutdown_
               THEN [prod EXCEPT !.next_id = @ + k]
               ELSE [prod EXCEPT !.next_id = @ + k,
                                 !.vec = [i \in 1..k |-> NewTask(prod.next_id + i - 1)],
                                 !.pc = "add_tasks_lock"]
    /\ UNCHANGED <<pool, sess, stop, term, hist, aux>>

\* add_tasks under the lock, up to its next unlock
AddTasksLocked ==
    /\ prod.pc = "add_tasks_lock"
    /\ LET r == add_tasks_locked(prod.vec, pool.waiting_sessions_, pool.tasks_) IN
       /\ pool' = [pool EXCEPT !.tasks_ = r.T, !.waiting_sessions_ = r.W]
       /\ hist' = Noted(hist, SubSeq(prod.vec, 1, Len(prod.vec) - Len(r.rest)), TRUE,
                        CellTasks(r.cell))
       /\ sess' = Woken(r.waiter, r.cell)
       /\ prod' = [prod EXCEPT !.vec = r.rest, !.resumee = r.waiter,
                               !.pc = IF r.waiter = NoSession THEN "idle"
                                      ELSE "add_tasks_resume"]
    /\ UNCHANGED <<stop, term, aux>>

\* "waiter.handle.resume()" returns to add_tasks: "lock.lock()", next iteration
AddTasksResumed ==
    /\ prod.pc = "add_tasks_resume"
    /\ Suspended(prod.resumee)
    /\ prod' = [prod EXCEPT !.resumee = NoSession,
                            !.pc = IF prod.vec = <<>> THEN "idle" ELSE "add_tasks_lock"]
    /\ UNCHANGED <<pool, sess, stop, term, hist, aux>>

\* ---- DefaultTaskGenerator ----
\* counter_.fetch_add(1) on the counter's width: the counter's new value (the call
\* returns the old one)
IdModulus == 2 ^ IdBits
fetch_add(c) == (c + 1) % IdModulus

\* TaskIdGenerator::get_next_id: the id returned and the counter afterwards
get_next_id_m(c) == [id |-> c, counter_ |-> fetch_add(c)]
get_next_id(c) ==
    IF c = 0
    THEN [id |-> fetch_add(c), counter_ |-> fetch_add(fetch_add(c))]
    ELSE [id |-> c, counter_ |-> fetch_add(c)]

\* make_tasks: iterations i .. count - 1 of its loop, from counter value c
RECURSIVE make_tasks(_, _, _)
make_tasks(count, i, c) ==
    IF i >= count THEN [out |-> <<>>, counter_ |-> c]
    ELSE LET g == get_next_id(c)
             rest == make_tasks(count, i + 1, g.counter_)
             task == [task_id |-> g.id, skill_id |-> (i % 3) + 1,
                      payload |-> IF i % 2 = 0 THEN <<7>> ELSE <<>>]
         IN [out |-> <<task>> \o rest.out, counter_ |-> rest.counter_]

\* generate_tasks(pool, k): make_tasks(k), then add_tasks up to its shutdown check
GenerateTasks(k) ==
    /\ prod.pc = "idle"
    /\ gen.made + k <= MaxGenerated
    /\ LET r == make_tasks(k, 0, gen.counter_) IN
       /\ gen' = [counter_ |-> r.counter_, made |-> gen.made + k]
       /\ prod' = IF pool.shutdown_ THEN prod
                  ELSE [prod EXCEPT !.vec = r.out, !.pc = "add_tasks_lock"]
    /\ UNCHANGED <<pool, sess, stop, term, hist, msg, srv, io, wrk, reg, mx, eq, stats, lk, fr>>

\* ---- the thread calling TaskMessagePool::shutdown() ----
\* "if (!shutdown_.compare_exchange_strong(expected, true)) return"
ShutdownCas ==
    /\ stop.pc = "idle"
    /\ IF pool.shutdown_
       THEN UNCHANGED <<pool, stop>>
       ELSE /\ pool' = [pool EXCEPT !.shutdown_ = TRUE]
            /\ stop' = [stop EXCEPT !.pc = "swap"]
    /\ UNCHANGED <<sess, prod, term, hist, aux>>

\* "std::swap(waiters_to_resume, waiting_sessions_)" under the lock
ShutdownSwap ==
    /\ stop.pc = "swap"
    /\ stop' = [stop EXCEPT !.waiters_to_resume = swap_waiters(pool.waiting_sessions_),
                            !.pc = "drain"]
    /\ pool' = [pool EXCEPT !.waiting_sessions_ =
                    SubSeq(@, Len(swap_waiters(pool.waiting_sessions_)) + 1, Len(@))]
    /\ UNCHANGED <<sess, prod, term, hist, aux>>

\* "while (!waiters_to_resume.empty())": front, pop, "waiter.handle.resume()"
ShutdownResume ==
    /\ stop.pc = "drain"
    /\ Suspended(stop.resumee)
    /\ IF stop.waiters_to_resume = <<>>
       THEN /\ stop' = [stop EXCEPT !.resumee = NoSession, !.pc = "idle"]
            /\ UNCHANGED sess
       ELSE LET w == waiters_front(stop.waiters_to_resume) IN
            /\ stop' = [stop EXCEPT !.resumee = w,
                                    !.waiters_to_resume = waiters_pop(@)]
            /\ sess' = Woken(w, NoResult)
    /\ UNCHANGED <<pool, prod, term, hist, aux>>

\* ---- the thread calling Session::request_termination() ----
\* (through SessionManager::terminate_session or terminate_all_sessions, which
\* hold sessions_mutex_: one request_termination runs at a time; a session stays
\* in the map until it is reaped, so a finished session can be the target)
\* "termination_requested_.store(true)"
RequestTermination(s) ==
    /\ term.pc = "idle"
    /\ term.calls < MaxTerminations
    /\ sess' = [sess EXCEPT ![s].termination_requested_ = TRUE]
    /\ term' = [pc |-> "state", target |-> s, calls |-> term.calls + 1]
    /\ UNCHANGED <<pool, prod, stop, hist, aux>>

\* request_termination: "update_state(SessionState::COMPLETING)"
TerminationState ==
    /\ term.pc = "state"
    /\ sess' = [sess EXCEPT ![term.target].state_ = "COMPLETING"]
    /\ term' = [term EXCEPT !.pc = "sock"]
    /\ UNCHANGED <<pool, prod, stop, hist, aux>>

\* request_termination: "client_socket_->shutdown()"
TerminationSocket ==
    /\ term.pc = "sock"
    /\ sess' = [sess EXCEPT ![term.target].sock_shutdown = TRUE]
    /\ term' = [term EXCEPT !.pc = "idle", !.target = NoSession]
    /\ UNCHANGED <<pool, prod, stop, hist, aux>>

\* ---- specifications ----
\* a step of session s's coroutine with a worker that answers correctly on a
\* connection that does not fail
SessionStep(s) ==
    \/ Run(s)
    \/ LoopCheck(s)
    \/ TryGetCheck(s)
    \/ TryGetLocked(s)
    \/ AwaitSuspendCheck(s)
    \/ AwaitSuspendLocked(s)
    \/ IoWouldBlock(s)
    \/ WriteOk(s)
    \/ \E r \in CorrectResponses(sess[s].task) : ReadHeaderOk(s, r)
    \/ ReadBodyOk(s)
    \/ LoopExit(s)
    \/ Finalize(s)

\* the soft-error and failure paths of session s
SessionFault(s) ==
    \/ \E r \in WrongResponses(sess[s].task) : ReadHeaderOk(s, r)
    \/ \E e \in {"lost", "other"} : IoError(s, e)
    \/ \E n \in {0, write_size(sess[s]) - 1} : WriteShort(s, n)
    \/ ResizeThrows(s)
    \/ RequeueCheck(s)
    \/ RequeueLocked(s)
    \/ RequeueResumed(s)
    \/ IoFailed(s)

ProducerStep ==
    \/ AddTaskCheck
    \/ AddTaskLocked
    \/ AddTaskResumed
    \/ \E k \in 1..MaxBatch : AddTasksCheck(k)
    \/ AddTasksLocked
    \/ AddTasksResumed

ShutdownStep == ShutdownCas \/ ShutdownSwap \/ ShutdownResume

TerminationStep ==
    \/ \E s \in Sessions : RequestTermination(s)
    \/ TerminationState
    \/ TerminationSocket

Next ==
    \/ \E s \in Sessions : SessionStep(s)
    \/ \E s \in Sessions : SessionFault(s)
    \/ ProducerStep
    \/ ShutdownStep
    \/ TerminationStep

Spec == Init /\ [][Next]_vars

\* the happy path alone: sessions whose workers answer every request correctly,
\* connections that do not fail, no shutdown() and no request_termination()
LiveSessionStep(s) ==
    \/ Run(s)
    \/ LoopCheck(s)
    \/ TryGetCheck(s)
    \/ TryGetLocked(s)
    \/ AwaitSuspendCheck(s)
    \/ AwaitSuspendLocked(s)
    \/ IoWouldBlock(s)
    \/ WriteOk(s)
    \/ \E r \in CorrectResponses(sess[s].task) : ReadHeaderOk(s, r)
    \/ ReadBodyOk(s)

NextLive ==
    \/ \E s \in Sessions : LiveSessionStep(s)
    \/ ProducerStep

\* every thread keeps running: a session's coroutine is resumed when its
\* operation completes, a producer's call into the pool returns
SpecLive ==
    /\ Init
    /\ [][NextLive]_vars
    /\ \A s \in Sessions : WF_vars(LiveSessionStep(s))
    /\ WF_vars(ProducerStep)

\* request_termination against running sessions: sessions, their faults, the
\* producer and the caller of request_termination(); no pool shutdown
TermSessionStep(s) ==
    \/ SessionStep(s)
    \/ RequeueCheck(s)
    \/ RequeueLocked(s)
    \/ RequeueResumed(s)
    \/ IoFailed(s)

TermContinues == TerminationState \/ TerminationSocket
AddContinues == AddTaskLocked \/ AddTaskResumed \/ AddTasksLocked \/ AddTasksResumed

NextTerm ==
    \/ \E s \in Sessions : SessionStep(s)
    \/ \E s \in Sessions : SessionFault(s)
    \/ ProducerStep
    \/ TerminationStep

\* every thread keeps running and every worker answers every request: a
\* session's coroutine takes its next step whenever it can, a call of
\* request_termination() or of add_task/add_tasks that has begun returns.  Nothing
\* obliges the producer to add a task, a connection to fail or anyone to call
\* request_termination().
SpecTerm ==
    /\ Init
    /\ [][NextTerm]_vars
    /\ \A s \in Sessions : WF_vars(TermSessionStep(s))
    /\ WF_vars(TermContinues)
    /\ WF_vars(AddContinues)

\* ---- TaskMessage: header and payload in one buffer ----
\* std::numeric_limits<uint32_t>::max() and static_cast<uint32_t>(n) on the
\* header field's width
SizeModulus == 2 ^ SizeBits
uint32_max == SizeModulus - 1
static_cast_uint32(n) == n % SizeModulus

\* the byte strings passed in: any length a std::string may have, also above uint32_max
Bytes == {0, 1}
Data == {[i \in 1..n |-> b] : n \in 0..(uint32_max + 2), b \in Bytes}

\* validate_payload_size: TRUE when it does not throw std::length_error
validate_payload_size(size) == size <= uint32_max

\* validate_append_size, current_size being storage_.size() - kHeaderSize
validate_append_size_m(current_size, append_size) == TRUE
validate_append_size(current_size, append_size) == append_size <= uint32_max - current_size

\* TaskMessage(id, type, task_data) past its validation
construct(task_data) ==
    [body_size |-> static_cast_uint32(Len(task_data)), payload |-> task_data]

\* set_payload past its validation: resize, memcpy, header.body_size
set_payload(m, payload) ==
    [m EXCEPT !.payload = payload, !.body_size = static_cast_uint32(Len(payload))]

\* append_to_payload past its validation: resize, memcpy at original_size,
\* header.body_size = original_size + tail.size()
append_to_payload(m, tail) ==
    LET original_size == Len(m.payload) IN
    [m EXCEPT !.payload = @ \o tail,
              !.body_size = static_cast_uint32(original_size + Len(tail))]

\* "msg = TaskMessage(id, type, task_data)": a throwing constructor assigns nothing
Construct(task_data) ==
    /\ msg' = IF validate_payload_size(Len(task_data)) THEN construct(task_data) ELSE msg
    /\ UNCHANGED <<pool, sess, prod, stop, term, hist, gen, srv, io, wrk, reg, mx, eq, stats, lk, fr>>

\* msg.set_payload(payload): validate_payload_size throws before any change
SetPayload(payload) ==
    /\ msg' = IF validate_payload_size(Len(payload)) THEN set_payload(msg, payload) ELSE msg
    /\ UNCHANGED <<pool, sess, prod, stop, term, hist, gen, srv, io, wrk, reg, mx, eq, stats, lk, fr>>

\* msg.append_to_payload(tail): returns at once for an empty tail,
\* validate_append_size throws before any change
AppendToPayload(tail) ==
    /\ msg' = IF tail = <<>> THEN msg
              ELSE IF validate_append_size(Len(msg.payload), Len(tail))
              THEN append_to_payload(msg, tail)
              ELSE msg
    /\ UNCHANGED <<pool, sess, prod, stop, term, hist, gen, srv, io, wrk, reg, mx, eq, stats, lk, fr>>

NextMsg ==
    \/ \E d \in Data : Construct(d)
    \/ \E d \in Data : SetPayload(d)
    \/ \E d \in Data : AppendToPayload(d)

\* one TaskMessage under every sequence of calls of its constructor, set_payload
\* and append_to_payload
SpecMsg == Init /\ [][NextMsg]_vars

\* ---- AsyncTransportServer: start(), stop() and the acceptor thread ----
\* start(): running_ = true, start_listening; on success the acceptor thread is
\* started, on failure running_ = false and start returns false
Start(ok) ==
    /\ srv.ctl = "init"
    /\ srv' = IF ok THEN [srv EXCEPT !.running_ = TRUE, !.listening = TRUE,
                                     !.acc = "loop", !.ctl = "running"]
              ELSE [srv EXCEPT !.ctl = "failed"]
    /\ UNCHANGED <<pool, sess, prod, stop, term, hist, gen, msg, io, wrk, reg, mx, eq, stats, lk, fr>>

\* stop(): "running_ = false"; a server never started, or whose start failed, has
\* no acceptor thread to join
StopFlag ==
    /\ srv.ctl \in {"init", "failed", "running"}
    /\ srv' = [srv EXCEPT !.running_ = FALSE, !.ctl = "join"]
    /\ UNCHANGED <<pool, sess, prod, stop, term, hist, gen, msg, io, wrk, reg, mx, eq, stats, lk, fr>>

\* stop(): "if (acceptor_thread_.joinable()) acceptor_thread_.join()" returns
StopJoin ==
    /\ srv.ctl = "join"
    /\ srv.acc \in {"none", "done"}
    /\ srv' = [srv EXCEPT !.ctl = "close"]
    /\ UNCHANGED <<pool, sess, prod, stop, term, hist, gen, msg, io, wrk, reg, mx, eq, stats, lk, fr>>

\* stop(): server_socket_->close() and the rest of stop(): the I/O context is
\* stopped, then cleanup_closed_connections() and cleanup_completed_sessions(),
\* which erases the sessions whose is_completed() is true
StopClose ==
    /\ srv.ctl = "close"
    /\ srv' = [srv EXCEPT !.listening = FALSE, !.completed = 0, !.ctl = "stopped"]
    /\ UNCHANGED <<pool, sess, prod, stop, term, hist, gen, msg, io, wrk, reg, mx, eq, stats, lk, fr>>

\* a worker connects to the listening socket
ClientConnects ==
    /\ srv.listening
    /\ srv.offered < MaxClients
    /\ srv' = [srv EXCEPT !.backlog = @ + 1, !.offered = @ + 1]
    /\ UNCHANGED <<pool, sess, prod, stop, term, hist, gen, msg, io, wrk, reg, mx, eq, stats, lk, fr>>

\* the acceptor's "while (running_)"
acceptor_continues_m(running) == TRUE
acceptor_continues(running) == running

AcceptorLoop ==
    /\ srv.acc = "loop"
    /\ srv' = [srv EXCEPT !.acc = IF acceptor_continues(srv.running_) THEN "call"
                                  ELSE "done"]
    /\ UNCHANGED <<pool, sess, prod, stop, term, hist, gen, msg, io, wrk, reg, mx, eq, stats, lk, fr>>

\* "server_socket_->blocking_accept(ec, 500ms)" is entered: error.clear()
AcceptorCall ==
    /\ srv.acc = "call"
    /\ srv' = [srv EXCEPT !.ec = FALSE, !.acc = "accept"]
    /\ UNCHANGED <<pool, sess, prod, stop, term, hist, gen, msg, io, wrk, reg, mx, eq, stats, lk, fr>>

\* blocking_accept returns: "timeout" stands for every return of nullptr with the
\* error cleared (receive timeout, would-block, aborted, shutdown, bad fd),
\* "error" for nullptr with an error, "client" for an accepted connection.
\* After nullptr: "if (ec && running_)" backs off, then "continue".
AcceptReturns(o) ==
    /\ srv.acc = "accept"
    /\ o = "client" => srv.backlog > 0
    /\ srv' = [srv EXCEPT
                 !.ec = (o = "error"),
                 !.backlog = IF o = "client" THEN @ - 1 ELSE @,
                 !.late_returns = IF srv.ctl \in {"init", "running"} THEN @ ELSE @ + 1,
                 !.acc = IF o = "client" THEN "accepted"
                         ELSE IF o = "error" /\ srv.running_ THEN "backoff"
                         ELSE "loop"]
    /\ UNCHANGED <<pool, sess, prod, stop, term, hist, gen, msg, io, wrk, reg, mx, eq, stats, lk, fr>>

\* "if (!running_) { client->close(); break; }"
AcceptorGotClient ==
    /\ srv.acc = "accepted"
    /\ srv' = [srv EXCEPT !.acc = IF ~srv.running_ THEN "done" ELSE "register"]
    /\ UNCHANGED <<pool, sess, prod, stop, term, hist, gen, msg, io, wrk, reg, mx, eq, stats, lk, fr>>

\* active_connections_.push_back(client), create_session(client) (the session's
\* coroutine runs on this thread up to its first suspension), maintenance; when
\* something throws the thread sleeps 100 ms in the catch block.  create_session
\* puts the session in active_sessions_; maybe_run_maintenance, when its interval
\* has passed, calls cleanup_completed_sessions()
AcceptorRegister(throws, maintenance) ==
    /\ srv.acc = "register"
    /\ srv' = [srv EXCEPT !.active_connections_ = @ + 1,
                          !.live = IF throws THEN @ ELSE @ + 1,
                          !.completed = IF throws \/ ~maintenance THEN @ ELSE 0,
                          !.acc = IF throws THEN "backoff" ELSE "loop"]
    /\ UNCHANGED <<pool, sess, prod, stop, term, hist, gen, msg, io, wrk, reg, mx, eq, stats, lk, fr>>

\* a session's coroutine, resumed by an I/O thread or by a producer's add_task,
\* leaves its loop (connection lost, I/O error, termination requested, pool shut
\* down): update_state(TERMINATED) or update_state(ERROR_STATE)
SessionEnds ==
    /\ srv.live > 0
    /\ srv.ctl # "stopped"
    /\ srv' = [srv EXCEPT !.live = @ - 1, !.completed = @ + 1]
    /\ UNCHANGED <<pool, sess, prod, stop, term, hist, gen, msg, io, wrk, reg, mx, eq, stats, lk, fr>>

\* std::this_thread::sleep_for ends
AcceptorBackoff ==
    /\ srv.acc = "backoff"
    /\ srv' = [srv EXCEPT !.acc = "loop"]
    /\ UNCHANGED <<pool, sess, prod, stop, term, hist, gen, msg, io, wrk, reg, mx, eq, stats, lk, fr>>

AcceptorStep ==
    \/ AcceptorLoop
    \/ AcceptorCall
    \/ \E o \in {"timeout", "error", "client"} : AcceptReturns(o)
    \/ AcceptorGotClient
    \/ \E throws, maintenance \in BOOLEAN : AcceptorRegister(throws, maintenance)
    \/ AcceptorBackoff

StopContinues == StopJoin \/ StopClose

NextSrv ==
    \/ \E ok \in BOOLEAN : Start(ok)
    \/ ClientConnects
    \/ StopFlag
    \/ StopContinues
    \/ AcceptorStep
    \/ SessionEnds

\* the acceptor thread keeps running and its timed blocking_accept returns (at
\* the latest when the receive timeout set on the listening socket expires); a
\* stop() that was called runs on.  Nothing obliges anyone to call start() or
\* stop(), or a worker to connect.
SpecSrv ==
    /\ Init
    /\ [][NextSrv]_vars
    /\ WF_vars(AcceptorStep)
    /\ WF_vars(StopContinues)

\* the soft-error path of session s, which puts the session's task back in the pool
RequeueOnMismatch(s) ==
    \/ \E r \in WrongResponses(sess[s].task) : ReadHeaderOk(s, r)
    \/ RequeueCheck(s)
    \/ RequeueLocked(s)
    \/ RequeueResumed(s)

\* everything that puts tasks in the pool or takes them out: generate_tasks, the
\* sessions with their requeue, and pool shutdown
NextGen ==
    \/ \E s \in Sessions : SessionStep(s)
    \/ \E s \in Sessions : RequeueOnMismatch(s)
    \/ \E k \in 1..MaxBatch : GenerateTasks(k)
    \/ AddTasksLocked
    \/ AddTasksResumed
    \/ ShutdownStep

SpecGen == Init /\ [][NextGen]_vars

\* ---- CoroIoContext ----
\* "++op.attempts" below the uint16_t maximum
attempts_max == 2 ^ AttemptBits - 1
next_attempts_m(a) == (a + 1) % 2 ^ AttemptBits
next_attempts(a) == IF a < attempts_max THEN a + 1 ELSE a

\* PendingOp op{} as register_pending fills it; id stands for its handle and predicate
PendingOp(id) == [id |-> id, attempts |-> 0]

\* register_pending under pending_mutex_: pending_ops_.push_back(op)
register_pending(P, id) == Append(P, PendingOp(id))

\* "fetched.swap(pending_ops_)": what each vector holds afterwards
fetched_swap_m(F, P) == [fetched |-> P, pending_ops_ |-> P]
fetched_swap(F, P) == [fetched |-> P, pending_ops_ |-> F]

\* where a thread goes when the for loop over fetched has ended:
\* "if (!requeue.empty())" and the return to run()
after_ops(th) ==
    IF th.fetched # <<>> THEN "ops"
    ELSE IF th.requeue # <<>> THEN "append" ELSE "wait"

\* start(threads): running_ goes from false to true and the threads enter run(i)
IoStart ==
    /\ io.ctl = "init"
    /\ ~io.running_
    /\ io' = [io EXCEPT !.running_ = TRUE, !.ctl = "started",
                        !.thr = [t \in IoThreads |-> [@[t] EXCEPT !.pc = "loop"]]]
    /\ UNCHANGED <<core, gen, msg, srv, wrk, reg, mx, eq, stats, lk, fr>>

\* a coroutine's await_suspend on some other thread calls register_pending
RegisterPending ==
    /\ io.registered < MaxOps
    /\ io' = [io EXCEPT !.registered = @ + 1,
                        !.pending_ops_ = register_pending(@, io.registered + 1)]
    /\ UNCHANGED <<core, gen, msg, srv, wrk, reg, mx, eq, stats, lk, fr>>

\* WorkGuard's constructor: outstanding_work_.fetch_add(1)
GuardAcquire ==
    /\ io.guards < MaxGuards
    /\ io.ctl # "stopped"
    /\ io' = [io EXCEPT !.guards = @ + 1, !.outstanding_work_ = @ + 1]
    /\ UNCHANGED <<core, gen, msg, srv, wrk, reg, mx, eq, stats, lk, fr>>

\* WorkGuard's destructor: outstanding_work_.fetch_sub(1)
GuardRelease ==
    /\ io.outstanding_work_ > 0
    /\ io' = [io EXCEPT !.outstanding_work_ = @ - 1]
    /\ UNCHANGED <<core, gen, msg, srv, wrk, reg, mx, eq, stats, lk, fr>>

\* run(): "while (running_ ||": the load of running_
RunCheckRunning(t) ==
    /\ io.thr[t].pc = "loop"
    /\ io' = [io EXCEPT !.thr[t].pc = IF io.running_ THEN "process" ELSE "check_work"]
    /\ UNCHANGED <<core, gen, msg, srv, wrk, reg, mx, eq, stats, lk, fr>>

\* "outstanding_work_.load() > 0"
has_outstanding_work_m(w) == FALSE
has_outstanding_work(w) == w > 0

\* run(): "|| outstanding_work_.load() > 0)": the load of the counter, made when
\* running_ was read false; the thread leaves run() when it reads zero
RunCheckWork(t) ==
    /\ io.thr[t].pc = "check_work"
    /\ io' = [io EXCEPT !.thr[t].pc = IF has_outstanding_work(io.outstanding_work_)
                                     THEN "process" ELSE "exited"]
    /\ UNCHANGED <<core, gen, msg, srv, wrk, reg, mx, eq, stats, lk, fr>>

\* process_pending_ops under pending_mutex_: return if nothing is pending, else
\* steal the whole queue
Steal(t) ==
    /\ io.thr[t].pc = "process"
    /\ IF io.pending_ops_ = <<>>
       THEN io' = [io EXCEPT !.thr[t].pc = "wait"]
       ELSE LET r == fetched_swap(io.thr[t].fetched, io.pending_ops_) IN
            io' = [io EXCEPT !.pending_ops_ = r.pending_ops_,
                             !.thr[t].fetched = r.fetched,
                             !.thr[t].pc = "ops"]
    /\ UNCHANGED <<core, gen, msg, srv, wrk, reg, mx, eq, stats, lk, fr>>

\* "completed = op.try_complete()" for the next op of the batch.  The predicates
\* registered by CoroSocketAdapter report an error through last_error_ and return
\* true; they do not throw.  An op that is not complete goes to requeue.
TryComplete(t, completed) ==
    /\ io.thr[t].pc = "ops"
    /\ LET op == Head(io.thr[t].fetched) IN
       IF completed
       THEN io' = [io EXCEPT !.predicate_true[op.id] = TRUE, !.thr[t].pc = "resume"]
       ELSE LET th == [io.thr[t] EXCEPT
                          !.fetched = Tail(@),
                          !.requeue = Append(@, [op EXCEPT !.attempts = next_attempts(@)])]
            IN io' = [io EXCEPT !.thr[t] = [th EXCEPT !.pc = after_ops(th)]]
    /\ UNCHANGED <<core, gen, msg, srv, wrk, reg, mx, eq, stats, lk, fr>>

\* "h.resume()" for the completed op: the coroutine runs on this thread up to its
\* next suspension, where it may register its next operation
ResumeOp(t, registers) ==
    /\ io.thr[t].pc = "resume"
    /\ registers => io.registered < MaxOps
    /\ LET op == Head(io.thr[t].fetched)
           th == [io.thr[t] EXCEPT !.fetched = Tail(@)]
       IN io' = [io EXCEPT
                    !.resumes[op.id] = @ + 1,
                    !.late_resumes = IF io.running_ THEN @ ELSE @ + 1,
                    !.registered = IF registers THEN @ + 1 ELSE @,
                    !.pending_ops_ = IF registers
                                     THEN register_pending(@, io.registered + 1) ELSE @,
                    !.thr[t] = [th EXCEPT !.pc = after_ops(th)]]
    /\ UNCHANGED <<core, gen, msg, srv, wrk, reg, mx, eq, stats, lk, fr>>

\* process_pending_ops under pending_mutex_ again: the unfinished ops go back
AppendRequeued(t) ==
    /\ io.thr[t].pc = "append"
    /\ io' = [io EXCEPT !.pending_ops_ = @ \o io.thr[t].requeue,
                        !.thr[t].requeue = <<>>,
                        !.thr[t].pc = "wait"]
    /\ UNCHANGED <<core, gen, msg, srv, wrk, reg, mx, eq, stats, lk, fr>>

\* run(): pending_cv_.wait_for(lk, poll_interval_, ...) returns, by its predicate,
\* by a notification or when poll_interval_ has passed
TimedWait(t) ==
    /\ io.thr[t].pc = "wait"
    /\ io' = [io EXCEPT !.thr[t].pc = "loop"]
    /\ UNCHANGED <<core, gen, msg, srv, wrk, reg, mx, eq, stats, lk, fr>>

\* stop(): "if (running_.exchange(false))"
IoStop ==
    /\ io.ctl = "started"
    /\ io.running_
    /\ io' = [io EXCEPT !.running_ = FALSE, !.ctl = "join"]
    /\ UNCHANGED <<core, gen, msg, srv, wrk, reg, mx, eq, stats, lk, fr>>

\* stop(): "t.join()" for the next thread of event_threads_; stop() returns after
\* the last one
IoJoin ==
    /\ io.ctl = "join"
    /\ io.thr[io.joined + 1].pc = "exited"
    /\ io' = [io EXCEPT !.joined = @ + 1,
                        !.ctl = IF io.joined + 1 = NumThreads THEN "stopped" ELSE @]
    /\ UNCHANGED <<core, gen, msg, srv, wrk, reg, mx, eq, stats, lk, fr>>

IoThreadStep(t) ==
    \/ RunCheckRunning(t)
    \/ RunCheckWork(t)
    \/ Steal(t)
    \/ \E c \in BOOLEAN : TryComplete(t, c)
    \/ \E r \in BOOLEAN : ResumeOp(t, r)
    \/ AppendRequeued(t)
    \/ TimedWait(t)

\* the threads of the context keep running, a stop() that was called runs on, and
\* a work guard (a scoped object) is released in the end.  Nothing obliges anyone
\* to call start() or stop() or to register an operation.
SpecIo ==
    /\ Init
    /\ [][
            \/ IoStart
            \/ RegisterPending
            \/ GuardAcquire
            \/ GuardRelease
            \/ IoStop
            \/ IoJoin
            \/ \E t \in IoThreads : IoThreadStep(t)
       ]_vars
    /\ \A t \in IoThreads : WF_vars(IoThreadStep(t))
    /\ WF_vars(IoJoin)
    /\ WF_vars(GuardRelease)

\* ---- the worker: TaskProcessor ----
\* std::reverse
RECURSIVE Reverse(_)
Reverse(q) == IF q = <<>> THEN <<>> ELSE Append(Reverse(Tail(q)), Head(q))

\* the digits std::stoll consumes: the longest prefix of digits
RECURSIVE digits_prefix(_)
digits_prefix(q) ==
    IF q = <<>> \/ Head(q) # "1" THEN <<>> ELSE <<Head(q)>> \o digits_prefix(Tail(q))
\* the value of a run of digits "1"
RECURSIVE digits_value(_)
digits_value(d) == IF d = <<>> THEN 0 ELSE 10 * digits_value(SubSeq(d, 1, Len(d) - 1)) + 1

\* TaskProcessor::process: the string it returns for a task.  std::stoll throws
\* std::invalid_argument when no digit can be consumed; "catch (...)" turns that
\* into the error string.  (The overflow branch needs ten digits and more.)
process(task_id, skill_id, payload) ==
    CASE skill_id = 1 -> <<"Reversed: ">> \o Reverse(payload)
      [] skill_id = 2 -> IF digits_prefix(payload) = <<>>
                         THEN <<"Error: Invalid number format">>
                         ELSE <<"Double of ">> \o payload
                              \o <<" is ", 2 * digits_value(digits_prefix(payload))>>
      [] skill_id = 3 -> <<"Processed file: ">> \o payload \o <<" (simulated)">>
      [] OTHER -> <<"Unknown skill_id: ", skill_id>>
\* the skill ids TaskProcessor::process has a case for
known_skill(skill_id) == skill_id \in {1, 2, 3}

\* ---- the worker: BlockingRuntime and WorkerSession::start ----
\* runtime_->is_connected(): "socket_ && socket_->is_open()"
is_connected(w) == w.sock.exists /\ w.sock.fd_open
\* ZeroTierSocket::read returns an error at once: shutdown() was called on the
\* socket, the fd was closed, or the socket is not connected
read_interrupted(w) ==
    w.sock.shutdown_requested_ \/ ~w.sock.fd_open \/ ~w.sock.is_connected_
\* the skill and payload of the frames the manager may send; 4 stands for the
\* ids TaskProcessor::process has no case for
Requests ==
    [skill_id : 1..4, payload : {<<>>, <<"1">>, <<"x">>, <<"1", "x">>}]

\* start(): "while (!shutdown_requested_.load())"
WhileCheck ==
    /\ wrk.pc = "while"
    /\ wrk' = [wrk EXCEPT !.pc = IF wrk.shutdown_requested_ THEN "release"
                                ELSE "need_connection"]
    /\ UNCHANGED <<core, gen, msg, srv, io, reg, mx, eq, stats, lk, fr>>

\* start(): need_connection, "if (start_requested_ && need_connection)"
NeedConnection ==
    /\ wrk.pc = "need_connection"
    /\ wrk' = IF wrk.start_requested_ /\ ~is_connected(wrk)
              THEN [wrk EXCEPT !.connection_status_ = "Connecting", !.pc = "connect"]
              ELSE [wrk EXCEPT !.pc = "run_check"]
    /\ UNCHANGED <<core, gen, msg, srv, io, reg, mx, eq, stats, lk, fr>>

\* BlockingRuntime::connect up to the call of sock->connect: the socket is created
\* and stored if there is none, an open fd is closed; sock->connect opens a new fd
Connect ==
    /\ wrk.pc = "connect"
    /\ wrk' = [wrk EXCEPT !.sock = [(IF @.exists THEN @ ELSE NoSocket) EXCEPT
                                       !.exists = TRUE, !.fd_open = TRUE,
                                       !.is_connected_ = FALSE],
                          !.pc = "connecting"]
    /\ UNCHANGED <<core, gen, msg, srv, io, reg, mx, eq, stats, lk, fr>>

\* sock->connect returns: connected (at once, or when the poll reports it while no
\* shutdown is requested and the fd is open), or with an error
ConnectReturns(ok) ==
    /\ wrk.pc = "connecting"
    /\ wrk' = IF ok
              THEN [wrk EXCEPT !.sock.is_connected_ = TRUE,
                               !.connection_status_ = "Connected", !.pc = "run_check"]
              ELSE [wrk EXCEPT !.pc = "connect_failed"]
    /\ UNCHANGED <<core, gen, msg, srv, io, reg, mx, eq, stats, lk, fr>>

\* start(): "if (!runtime_->connect())": break on shutdown, else sleep and continue
ConnectFailed ==
    /\ wrk.pc = "connect_failed"
    /\ wrk' = [wrk EXCEPT !.pc = IF wrk.shutdown_requested_ THEN "release" ELSE "while"]
    /\ UNCHANGED <<core, gen, msg, srv, io, reg, mx, eq, stats, lk, fr>>

\* start(): "if (start_requested_ && runtime_->is_connected())", the start request
\* is consumed and run_loop called
RunCheck ==
    /\ wrk.pc = "run_check"
    /\ wrk' = IF wrk.start_requested_ /\ is_connected(wrk)
              THEN [wrk EXCEPT !.start_requested_ = FALSE,
                               !.connection_status_ = "Running", !.pc = "run_loop"]
              ELSE [wrk EXCEPT !.pc = "disconnect_check"]
    /\ UNCHANGED <<core, gen, msg, srv, io, reg, mx, eq, stats, lk, fr>>

\* run_loop: takes the socket (returns false without one), clears a stale pause
RunLoopEnter ==
    /\ wrk.pc = "run_loop"
    /\ wrk' = IF wrk.sock.exists
              THEN [wrk EXCEPT !.pause_requested_ = FALSE, !.pc = "pause_check"]
              ELSE [wrk EXCEPT !.success = FALSE, !.pc = "disconnect_check"]
    /\ UNCHANGED <<core, gen, msg, srv, io, reg, mx, eq, stats, lk, fr>>

PauseCheck_m ==
    /\ wrk.pc = "pause_check"
    /\ wrk' = [wrk EXCEPT !.pc = "read_task"]
    /\ UNCHANGED <<core, gen, msg, srv, io, reg, mx, eq, stats, lk, fr>>

\* run_loop: "if (pause_requested_.load())": break, run_loop returns true and
\* start() sets the status "Paused"
PauseCheck ==
    /\ wrk.pc = "pause_check"
    /\ wrk' = IF wrk.pause_requested_
              THEN [wrk EXCEPT !.pause_requested_ = FALSE, !.success = TRUE,
                               !.connection_status_ = "Paused", !.pc = "disconnect_check"]
              ELSE [wrk EXCEPT !.pc = "read_task"]
    /\ UNCHANGED <<core, gen, msg, srv, io, reg, mx, eq, stats, lk, fr>>

\* read_task returns a whole frame sent by the manager, which numbers its tasks
ReadTask(f) ==
    /\ wrk.pc = "read_task"
    /\ ~read_interrupted(wrk)
    /\ wrk.frames < MaxFrames
    /\ wrk' = [wrk EXCEPT !.header = [task_id |-> wrk.frames + 1,
                                      skill_id |-> f.skill_id, payload |-> f.payload],
                          !.frames = @ + 1, !.pc = "process"]
    /\ UNCHANGED <<core, gen, msg, srv, io, reg, mx, eq, stats, lk, fr>>

\* read_task throws a system_error because the socket was shut down or closed or
\* is not connected: run_loop returns false
ReadInterrupted ==
    /\ wrk.pc = "read_task"
    /\ read_interrupted(wrk)
    /\ wrk' = [wrk EXCEPT !.success = FALSE, !.pc = "disconnect_check"]
    /\ UNCHANGED <<core, gen, msg, srv, io, reg, mx, eq, stats, lk, fr>>

\* read_task throws a system_error because the manager closed the connection or
\* sent a short or oversized frame: run_loop returns false
ReadFails ==
    /\ wrk.pc = "read_task"
    /\ ~read_interrupted(wrk)
    /\ wrk' = [wrk EXCEPT !.success = FALSE, !.pc = "disconnect_check"]
    /\ UNCHANGED <<core, gen, msg, srv, io, reg, mx, eq, stats, lk, fr>>

\* run_loop: "auto result = processor.process(header.task_id, header.task_type, payload)"
Process ==
    /\ wrk.pc = "process"
    /\ wrk' = [wrk EXCEPT !.result = process(wrk.header.task_id, wrk.header.skill_id,
                                             wrk.header.payload),
                          !.pc = "write_response"]
    /\ UNCHANGED <<core, gen, msg, srv, io, reg, mx, eq, stats, lk, fr>>

\* write_response(socket, header.task_id, header.task_type, result): the frame is
\* written whole and the task counted, or the write fails and run_loop returns false
WriteResponse(ok) ==
    /\ wrk.pc = "write_response"
    /\ ok => wrk.sock.fd_open
    /\ wrk' = IF ok
              THEN [wrk EXCEPT !.response = [task_id |-> wrk.header.task_id,
                                             skill_id |-> wrk.header.skill_id,
                                             payload |-> wrk.result],
                               !.tasks_completed_ = @ + 1, !.pc = "pause_check"]
              ELSE [wrk EXCEPT !.success = FALSE, !.pc = "disconnect_check"]
    /\ UNCHANGED <<core, gen, msg, srv, io, reg, mx, eq, stats, lk, fr>>

\* start(): "if (!success)" only logs and the local "success" ends with its block;
\* "if (disconnect_requested_.load())": runtime_->disconnect() closes the socket,
\* continue; else the idle wait
DisconnectCheck ==
    /\ wrk.pc = "disconnect_check"
    /\ wrk' = IF wrk.disconnect_requested_
              THEN [wrk EXCEPT !.sock.fd_open = FALSE, !.disconnect_requested_ = FALSE,
                               !.connection_status_ = "Disconnected", !.success = TRUE,
                               !.pc = "while"]
              ELSE [wrk EXCEPT !.success = TRUE, !.pc = "idle_wait"]
    /\ UNCHANGED <<core, gen, msg, srv, io, reg, mx, eq, stats, lk, fr>>

\* start(): std::this_thread::sleep_for(500ms) ends
IdleWait ==
    /\ wrk.pc = "idle_wait"
    /\ wrk' = [wrk EXCEPT !.pc = "while"]
    /\ UNCHANGED <<core, gen, msg, srv, io, reg, mx, eq, stats, lk, fr>>

\* start() after the loop: runtime_->release() destroys the socket, status "Stopped"
Release ==
    /\ wrk.pc = "release"
    /\ wrk' = [wrk EXCEPT !.sock = NoSocket, !.connection_status_ = "Stopped",
                          !.pc = "stopped"]
    /\ UNCHANGED <<core, gen, msg, srv, io, reg, mx, eq, stats, lk, fr>>

\* WorkerSession::shutdown(): shutdown_requested_.store(true)
ShutdownRequested ==
    /\ wrk.ui = "idle"
    /\ wrk' = [wrk EXCEPT !.shutdown_requested_ = TRUE, !.ui = "disconnect_flag"]
    /\ UNCHANGED <<core, gen, msg, srv, io, reg, mx, eq, stats, lk, fr>>

\* WorkerSession::shutdown(): disconnect_requested_.store(true)
ShutdownDisconnectFlag ==
    /\ wrk.ui = "disconnect_flag"
    /\ wrk' = [wrk EXCEPT !.disconnect_requested_ = TRUE, !.ui = "runtime_shutdown"]
    /\ UNCHANGED <<core, gen, msg, srv, io, reg, mx, eq, stats, lk, fr>>

\* BlockingRuntime::shutdown(): with a socket, socket->shutdown() and socket->close();
\* without one, nothing
RuntimeShutdown ==
    /\ wrk.ui = "runtime_shutdown"
    /\ wrk' = [wrk EXCEPT !.sock = IF @.exists
                                   THEN [@ EXCEPT !.shutdown_requested_ = TRUE,
                                                  !.fd_open = FALSE]
                                   ELSE @,
                          !.ui = "returned"]
    /\ UNCHANGED <<core, gen, msg, srv, io, reg, mx, eq, stats, lk, fr>>

\* the user's other commands: start_runtime(), pause_runtime(), disconnect_runtime();
\* "issued" notes them in order, "paused_at" the tasks completed when pause was asked
StartRuntime ==
    /\ wrk.commands < MaxCommands
    /\ wrk' = [wrk EXCEPT !.start_requested_ = TRUE, !.commands = @ + 1,
                          !.issued = Append(@, "start")]
    /\ UNCHANGED <<core, gen, msg, srv, io, reg, mx, eq, stats, lk, fr>>

PauseRuntime ==
    /\ wrk.commands < MaxCommands
    /\ wrk' = [wrk EXCEPT !.pause_requested_ = TRUE, !.commands = @ + 1,
                          !.issued = Append(@, "pause"),
                          !.paused_at = wrk.tasks_completed_]
    /\ UNCHANGED <<core, gen, msg, srv, io, reg, mx, eq, stats, lk, fr>>

DisconnectRuntime ==
    /\ wrk.commands < MaxCommands
    /\ wrk' = [wrk EXCEPT !.disconnect_requested_ = TRUE, !.sock.fd_open = FALSE,
                          !.commands = @ + 1, !.issued = Append(@, "disconnect")]
    /\ UNCHANGED <<core, gen, msg, srv, io, reg, mx, eq, stats, lk, fr>>

\* the steps of the control thread that do not wait for the manager
ControlStep ==
    \/ WhileCheck
    \/ NeedConnection
    \/ Connect
    \/ \E ok \in BOOLEAN : ConnectReturns(ok)
    \/ ConnectFailed
    \/ RunCheck
    \/ RunLoopEnter
    \/ PauseCheck
    \/ ReadInterrupted
    \/ Process
    \/ \E ok \in BOOLEAN : WriteResponse(ok)
    \/ DisconnectCheck
    \/ IdleWait
    \/ Release

\* a shutdown() that was called runs on
ShutdownContinues ==
    \/ ShutdownDisconnectFlag
    \/ RuntimeShutdown

\* the control thread keeps running: its sleeps end, its connect attempts return
\* (sock->connect polls with a timeout), a read on a socket that was shut down or
\* closed returns; a shutdown() that was called runs on.  Nothing obliges the
\* manager to send a frame or to close the connection, or the user to give a command.
SpecWrk ==
    /\ Init
    /\ [][
            \/ ControlStep
            \/ \E f \in Requests : ReadTask(f)
            \/ ReadFails
            \/ ShutdownRequested
            \/ ShutdownContinues
            \/ StartRuntime
            \/ PauseRuntime
            \/ DisconnectRuntime
       ]_vars
    /\ WF_vars(ControlStep)
    /\ WF_vars(ShutdownContinues)

\* ---- SkillRegistry ----
\* register_skill under mutex_, with a descriptor that owns a new handler object:
\* "skills_[descriptor.id] = std::move(descriptor)" destroys the handler the entry
\* owned before, if any, with the descriptor it belonged to
RegisterSkill(id) ==
    /\ reg.created < MaxHandlers
    /\ reg' = [reg EXCEPT !.created = @ + 1,
                          !.skills_[id] = reg.created + 1,
                          !.alive = (@ \ {reg.skills_[id]})
                                        \cup {reg.created + 1}]
    /\ UNCHANGED <<core, gen, msg, srv, io, wrk, mx, eq, stats, lk, fr>>

\* clear() under mutex_: every descriptor and its handler is destroyed
Clear ==
    /\ reg.alive # {}
    /\ reg' = [reg EXCEPT !.skills_ = [k \in SkillIds |-> NoHandler], !.alive = {}]
    /\ UNCHANGED <<core, gen, msg, srv, io, wrk, mx, eq, stats, lk, fr>>

\* dispatch under mutex_: no entry, return nullptr; else keep the raw pointer
\* "handler = it->second.handler.get()" and unlock
DispatchLookup(d, id) ==
    /\ reg.disp[d].pc = "idle"
    /\ reg.disp[d].calls < MaxDispatches
    /\ reg' = [reg EXCEPT !.disp[d] =
                  IF reg.skills_[id] = NoHandler
                  THEN [@ EXCEPT !.skill_id = id, !.handler = NoHandler,
                                 !.outcome = "unknown_skill", !.calls = @ + 1,
                                 !.pc = "returned"]
                  ELSE [@ EXCEPT !.skill_id = id, !.handler = reg.skills_[id],
                                 !.outcome = "none", !.calls = @ + 1,
                                 !.pc = "process"]]
    /\ UNCHANGED <<core, gen, msg, srv, io, wrk, mx, eq, stats, lk, fr>>

\* "handler->process(payload)" outside the lock ends with a response, a nullptr or
\* an exception; on a destroyed handler the call is undefined and may also crash
\* the process.  The response or nullptr is returned; dispatch has no try block,
\* an exception leaves it
HandlerProcess(d, o) ==
    /\ reg.disp[d].pc = "process"
    /\ o = "crash" => reg.disp[d].handler \notin reg.alive
    /\ reg' = [reg EXCEPT !.disp[d].outcome = o,
                          !.disp[d].pc = CASE o \in {"response", "failed"} -> "returned"
                                           [] o = "exception" -> "threw"
                                           [] OTHER -> "crashed"]
    /\ UNCHANGED <<core, gen, msg, srv, io, wrk, mx, eq, stats, lk, fr>>

\* the caller takes dispatch's result and may call again
DispatchReturned(d) ==
    /\ reg.disp[d].pc = "returned"
    /\ reg' = [reg EXCEPT !.disp[d].pc = "idle", !.disp[d].handler = NoHandler]
    /\ UNCHANGED <<core, gen, msg, srv, io, wrk, mx, eq, stats, lk, fr>>

SpecReg ==
    /\ Init
    /\ [][
            \/ \E id \in SkillIds : RegisterSkill(id)
            \/ Clear
            \/ \E d \in Dispatchers, id \in SkillIds : DispatchLookup(d, id)
            \/ \E d \in Dispatchers :
                  \E o \in {"response", "failed", "exception", "crash"} : HandlerProcess(d, o)
            \/ \E d \in Dispatchers : DispatchReturned(d)
       ]_vars

\* ---- TaskMessagePool with its mutex_ ----
\* where a thread that waited for mutex_ is once it holds it
locked_pc(pc) ==
    CASE pc = "ready_lock" -> "ready_locked"
      [] pc = "suspend_lock" -> "suspend_locked"
      [] pc = "add_task_lock" -> "add_task_locked"
      [] pc \in {"add_tasks_lock", "add_tasks_relock"} -> "add_tasks_locked"
      [] pc = "swap_lock" -> "swap_locked"

\* "lock.unlock()" before "handle.resume()"
lock_unlock_m(owner) == owner
lock_unlock(owner) == NoOwner

\* the thread t starts "handle.resume()" on the consumer w
resume(m, t, w, pc) ==
    [m EXCEPT !.pc[t] = pc, !.pc[w] = "resumed", !.resumee[t] = w]

\* "std::unique_lock lock(mutex_)", "std::lock_guard lock(mutex_)", "lock.lock()"
MxLock(t) ==
    /\ mx.pc[t] \in {"ready_lock", "suspend_lock", "add_task_lock", "add_tasks_lock",
                    "add_tasks_relock", "swap_lock"}
    /\ mx.mutex_ = NoOwner
    /\ mx' = [mx EXCEPT !.mutex_ = t, !.pc[t] = locked_pc(mx.pc[t])]
    /\ UNCHANGED <<core, gen, msg, srv, io, wrk, reg, eq, stats, lk, fr>>

\* co_await get_next_task(): await_ready -> try_get_task_immediately,
\* "if (shutdown_.load()) return false"
MxAwaitReady(c) ==
    /\ mx.pc[c] = "idle"
    /\ mx.awaits[c] < MaxAwaits
    /\ mx' = [mx EXCEPT !.awaits[c] = @ + 1,
                        !.pc[c] = IF mx.shutdown_ THEN "suspend" ELSE "ready_lock"]
    /\ UNCHANGED <<core, gen, msg, srv, io, wrk, reg, eq, stats, lk, fr>>

\* try_get_task_immediately under its lock_guard; with a task the coroutine goes on
\* without suspending
MxTryGetLocked(c) ==
    /\ mx.pc[c] = "ready_locked"
    /\ mx' = IF mx.tasks_ = 0
             THEN [mx EXCEPT !.mutex_ = NoOwner, !.pc[c] = "suspend"]
             ELSE [mx EXCEPT !.mutex_ = NoOwner, !.tasks_ = @ - 1, !.pc[c] = "idle"]
    /\ UNCHANGED <<core, gen, msg, srv, io, wrk, reg, eq, stats, lk, fr>>

\* await_suspend: "if (pool_->shutdown_.load()) { handle.resume(); return; }"
MxAwaitSuspendCheck(c) ==
    /\ mx.pc[c] = "suspend"
    /\ mx' = [mx EXCEPT !.pc[c] = IF mx.shutdown_ THEN "self_resume" ELSE "suspend_lock"]
    /\ UNCHANGED <<core, gen, msg, srv, io, wrk, reg, eq, stats, lk, fr>>

\* await_suspend under the lock: shutdown check, deque check, registration
MxAwaitSuspendLocked(c) ==
    /\ mx.pc[c] = "suspend_locked"
    /\ mx' = IF mx.shutdown_
             THEN [mx EXCEPT !.mutex_ = lock_unlock(@), !.pc[c] = "self_resume"]
             ELSE IF mx.tasks_ > 0
             THEN [mx EXCEPT !.tasks_ = @ - 1, !.mutex_ = lock_unlock(@),
                             !.pc[c] = "self_resume"]
             ELSE [mx EXCEPT !.waiting_sessions_ = Append(@, c), !.mutex_ = NoOwner,
                             !.pc[c] = "waiting"]
    /\ UNCHANGED <<core, gen, msg, srv, io, wrk, reg, eq, stats, lk, fr>>

\* the "handle.resume()" of await_suspend returns
MxAwaitSuspendResumed(c) ==
    /\ mx.pc[c] = "self_resume"
    /\ mx' = [mx EXCEPT !.pc[c] = "idle"]
    /\ UNCHANGED <<core, gen, msg, srv, io, wrk, reg, eq, stats, lk, fr>>

\* add_task: "if (shutdown_.load()) return"
MxAddTaskCheck ==
    /\ mx.pc[Producer] = "idle"
    /\ mx.calls < MaxAdds
    /\ mx' = [mx EXCEPT !.calls = @ + 1,
                        !.pc[Producer] = IF mx.shutdown_ THEN "idle" ELSE "add_task_lock"]
    /\ UNCHANGED <<core, gen, msg, srv, io, wrk, reg, eq, stats, lk, fr>>

\* add_task under the lock
MxAddTaskLocked ==
    /\ mx.pc[Producer] = "add_task_locked"
    /\ mx' = IF has_waiter(mx.waiting_sessions_)
             THEN resume([mx EXCEPT !.waiting_sessions_ = waiters_pop(@),
                                    !.mutex_ = lock_unlock(@)],
                         Producer, waiters_front(mx.waiting_sessions_), "add_task_resume")
             ELSE [mx EXCEPT !.tasks_ = @ + 1, !.mutex_ = NoOwner,
                             !.pc[Producer] = "idle"]
    /\ UNCHANGED <<core, gen, msg, srv, io, wrk, reg, eq, stats, lk, fr>>

\* add_tasks with a vector of k tasks: "if (shutdown_.load()) return"
MxAddTasksCheck(k) ==
    /\ mx.pc[Producer] = "idle"
    /\ mx.calls < MaxAdds
    /\ mx' = IF mx.shutdown_
             THEN [mx EXCEPT !.calls = @ + 1]
             ELSE [mx EXCEPT !.calls = @ + 1, !.vec = k,
                             !.pc[Producer] = "add_tasks_lock"]
    /\ UNCHANGED <<core, gen, msg, srv, io, wrk, reg, eq, stats, lk, fr>>

\* one iteration of the for loop of add_tasks, or its end
MxAddTasksLocked ==
    /\ mx.pc[Producer] = "add_tasks_locked"
    /\ mx' = IF mx.vec = 0
             THEN [mx EXCEPT !.mutex_ = NoOwner, !.pc[Producer] = "idle"]
             ELSE IF has_waiter(mx.waiting_sessions_)
             THEN resume([mx EXCEPT !.waiting_sessions_ = waiters_pop(@),
                                    !.vec = @ - 1, !.mutex_ = lock_unlock(@)],
                         Producer, waiters_front(mx.waiting_sessions_), "add_tasks_resume")
             ELSE [mx EXCEPT !.tasks_ = @ + 1, !.vec = @ - 1]
    /\ UNCHANGED <<core, gen, msg, srv, io, wrk, reg, eq, stats, lk, fr>>

\* "waiter.handle.resume()" returns to t, the continuation having suspended
\* somewhere else: add_task returns, add_tasks goes on to "lock.lock()", shutdown
\* goes on with its drain loop
MxResumeReturns(t) ==
    /\ mx.pc[t] \in {"add_task_resume", "add_tasks_resume", "shutdown_resume"}
    /\ mx' = [mx EXCEPT !.pc[t] = CASE @ = "add_task_resume" -> "idle"
                                    [] @ = "add_tasks_resume" -> "add_tasks_relock"
                                    [] @ = "shutdown_resume" -> "drain",
                        !.pc[mx.resumee[t]] = "idle", !.resumee[t] = NoOwner]
    /\ UNCHANGED <<core, gen, msg, srv, io, wrk, reg, eq, stats, lk, fr>>

\* shutdown: "if (!shutdown_.compare_exchange_strong(expected, true)) return"
MxShutdownCas ==
    /\ mx.pc[Stopper] = "idle"
    /\ mx' = IF mx.shutdown_ THEN mx
             ELSE [mx EXCEPT !.shutdown_ = TRUE, !.pc[Stopper] = "swap_lock"]
    /\ UNCHANGED <<core, gen, msg, srv, io, wrk, reg, eq, stats, lk, fr>>

\* "std::swap(waiters_to_resume, waiting_sessions_)" in the lock_guard's block
MxShutdownSwap ==
    /\ mx.pc[Stopper] = "swap_locked"
    /\ mx' = [mx EXCEPT !.waiters_to_resume = mx.waiting_sessions_,
                        !.waiting_sessions_ = <<>>,
                        !.mutex_ = NoOwner, !.pc[Stopper] = "drain"]
    /\ UNCHANGED <<core, gen, msg, srv, io, wrk, reg, eq, stats, lk, fr>>

\* "while (!waiters_to_resume.empty())": front, pop, "waiter.handle.resume()"
MxShutdownResume ==
    /\ mx.pc[Stopper] = "drain"
    /\ mx' = IF mx.waiters_to_resume = <<>>
             THEN [mx EXCEPT !.pc[Stopper] = "idle"]
             ELSE resume([mx EXCEPT !.waiters_to_resume = waiters_pop(@)],
                         Stopper, waiters_front(mx.waiters_to_resume), "shutdown_resume")
    /\ UNCHANGED <<core, gen, msg, srv, io, wrk, reg, eq, stats, lk, fr>>

SpecMx ==
    /\ Init
    /\ [][
            \/ \E t \in PoolThreads : MxLock(t)
            \/ \E c \in Consumers : MxAwaitReady(c)
            \/ \E c \in Consumers : MxTryGetLocked(c)
            \/ \E c \in Consumers : MxAwaitSuspendCheck(c)
            \/ \E c \in Consumers : MxAwaitSuspendLocked(c)
            \/ \E c \in Consumers : MxAwaitSuspendResumed(c)
            \/ MxAddTaskCheck
            \/ MxAddTaskLocked
            \/ \E k \in 1..MaxVec : MxAddTasksCheck(k)
            \/ MxAddTasksLocked
            \/ MxShutdownCas
            \/ MxShutdownSwap
            \/ MxShutdownResume
            \/ \E t \in {Producer, Stopper} : MxResumeReturns(t)
       ]_vars

\* ---- CoroIoContext: the statistics of completed operations ----
\* "static constexpr size_t max_tracked_attempts_"
max_tracked_attempts_ == 2 ^ TrackBits

\* process_pending_ops under stats_mutex_: idx = std::min(failures,
\* max_tracked_attempts_ - 1), cat_idx falls back to 0 when out of range, and
\* "completion_attempt_histograms_[cat_idx][idx]++"
record_completion(H, category, failures) ==
    LET idx == IF failures < max_tracked_attempts_ - 1 THEN failures
               ELSE max_tracked_attempts_ - 1
        cat_idx == IF category >= NumCategories THEN 0 ELSE category
    IN [H EXCEPT ![cat_idx][idx] = @ + 1]

\* register_pending(category, try_complete, handle): "PendingOp op{}" with
\* attempts 0 and the category
StRegister(c) ==
    /\ stats.pc = "none"
    /\ stats.total_operations_processed_ < MaxCompletions
    /\ stats' = [stats EXCEPT !.pc = "pending", !.op = [attempts |-> 0, category |-> c],
                        !.failures = 0]
    /\ UNCHANGED <<core, gen, msg, srv, io, wrk, reg, mx, eq, lk, fr>>

\* process_pending_ops: try_complete returned false, "++op.attempts" below the
\* maximum and the op is requeued; failures counts the times this happened
StTryFails ==
    /\ stats.pc = "pending"
    /\ stats.failures < MaxTries
    /\ stats' = [stats EXCEPT !.op.attempts = next_attempts(@), !.failures = @ + 1]
    /\ UNCHANGED <<core, gen, msg, srv, io, wrk, reg, mx, eq, lk, fr>>

\* process_pending_ops: try_complete returned true (or threw) for an op whose
\* handle is that of a suspended coroutine; after h.resume() the statistics
StCompletes ==
    /\ stats.pc = "pending"
    /\ stats' = [stats EXCEPT !.pc = "none",
                        !.total_operations_processed_ = @ + 1,
                        !.completion_attempt_histograms_ =
                            record_completion(@, stats.op.category, stats.op.attempts)]
    /\ UNCHANGED <<core, gen, msg, srv, io, wrk, reg, mx, eq, lk, fr>>

SpecSt ==
    /\ Init
    /\ [][
            \/ \E c \in 0..NumCategories - 1 : StRegister(c)
            \/ StTryFails
            \/ StCompletes
       ]_vars

\* ---- the manager's locks ----
\* The pool's mutex_, the session manager's sessions_mutex_ and the I/O context's
\* pending_mutex_ and stats_mutex_ are std::mutex objects.  What a call does with
\* them is a sequence of steps: lock and unlock of a mutex, and the begin and end
\* of a "handle.resume()", during which the resumed coroutine runs on the thread.
Mutexes == {"mutex_", "sessions_mutex_", "pending_mutex_", "stats_mutex_"}
LockThreads == {"producer", "acceptor", "io", "stats"}
Lock(m) == [op |-> "lock", m |-> m]
Unlock(m) == [op |-> "unlock", m |-> m]
CriticalSection(m) == <<Lock(m), Unlock(m)>>
Inline(c) == <<[op |-> "resume", m |-> "none"]>> \o c \o <<[op |-> "return", m |-> "none"]>>

\* register_pending: pending_ops_.push_back under pending_mutex_
register_pending_locks == CriticalSection("pending_mutex_")

\* add_task: under mutex_ the task is handed to the front waiter or pushed; the
\* waiter is resumed after "lock.unlock()".  c is what the resumed waiter does
\* (empty when there is no waiter)
add_task_locks_m(c) ==
    IF c = <<>> THEN CriticalSection("mutex_")
    ELSE <<Lock("mutex_")>> \o c \o <<Unlock("mutex_")>>
add_task_locks(c) == CriticalSection("mutex_") \o c

\* add_tasks with one hand-off: "lock.unlock(); waiter.handle.resume(); lock.lock()"
\* inside the loop under mutex_
add_tasks_locks(c) ==
    IF c = <<>> THEN CriticalSection("mutex_")
    ELSE <<Lock("mutex_"), Unlock("mutex_")>> \o c \o CriticalSection("mutex_")

\* what a session's coroutine does with the locks from a resume to its next
\* suspension.  It starts an operation on its socket that completes at once or
\* is registered; or it has finished a task and calls get_next_task, which takes
\* mutex_ in try_get_task_immediately and again in await_suspend when the deque
\* was empty; or it first requeues its task with add_task after a mismatch,
\* which may resume another session on the same thread.
Continuations ==
    LET get_next_task ==
            {CriticalSection("mutex_") \o register_pending_locks,
             CriticalSection("mutex_") \o CriticalSection("mutex_")}
        suspends == CriticalSection("mutex_") \o CriticalSection("mutex_")
    IN {<<>>, register_pending_locks} \cup get_next_task
         \cup {add_task_locks(<<>>) \o suspends,
               add_task_locks(Inline(register_pending_locks)) \o suspends}

\* process_pending_ops and the wait of run(): the queue is swapped under
\* pending_mutex_, a completed op's coroutine is resumed with no lock held, the
\* statistics are written under stats_mutex_, unfinished ops are put back under
\* pending_mutex_, and pending_cv_.wait_for takes pending_mutex_
process_pending_ops_locks(c) ==
    CriticalSection("pending_mutex_") \o Inline(c) \o CriticalSection("stats_mutex_")
        \o CriticalSection("pending_mutex_") \o CriticalSection("pending_mutex_")

\* create_session: the session is put in active_sessions_ under sessions_mutex_,
\* then session->run() starts the coroutine on the calling thread
create_session_locks(c) == CriticalSection("sessions_mutex_") \o Inline(c)

\* cleanup_completed_sessions (and the other calls that only walk the map)
cleanup_completed_sessions_locks == CriticalSection("sessions_mutex_")

\* print_comprehensive_statistics: under sessions_mutex_, get_task_pool_stats()
\* calls task_pool_->size() and task_pool_->waiting_count(), each under mutex_
print_comprehensive_statistics_locks ==
    <<Lock("sessions_mutex_")>> \o CriticalSection("mutex_") \o CriticalSection("mutex_")
        \o <<Unlock("sessions_mutex_")>>

\* the calls each thread makes: the producer add_task and enqueue_tasks (add_tasks,
\* which may wake a session that starts its write, then size()), the acceptor
\* create_session and the maintenance pass, an I/O thread its loop, and a thread
\* that reports statistics
Operations ==
    [t \in LockThreads |->
        CASE t = "producer" ->
                 {add_task_locks(c) : c \in {<<>>} \cup {Inline(k) : k \in Continuations}}
                   \cup {add_tasks_locks(c) \o CriticalSection("mutex_") :
                            c \in {<<>>, Inline(register_pending_locks)}}
          [] t = "acceptor" ->
                 {create_session_locks(k) : k \in Continuations}
                   \cup {cleanup_completed_sessions_locks}
          [] t = "io" -> {process_pending_ops_locks(k) : k \in Continuations}
          [] OTHER -> {print_comprehensive_statistics_locks,
                       CriticalSection("stats_mutex_")}]
AllOperations == UNION {Operations[t] : t \in LockThreads}

\* a thread with nothing to do makes one of its calls
LkCall(t, script) ==
    /\ lk.todo[t] = <<>>
    /\ script \in Operations[t]
    /\ lk' = [lk EXCEPT !.todo[t] = script]
    /\ UNCHANGED <<core, gen, msg, srv, io, wrk, reg, mx, eq, stats, fr>>

\* std::mutex::lock returns once no thread holds the mutex, the caller included
LkLock(t) ==
    /\ lk.todo[t] # <<>>
    /\ Head(lk.todo[t]).op = "lock"
    /\ lk.held[Head(lk.todo[t]).m] = "none"
    /\ lk' = [lk EXCEPT !.held[Head(lk.todo[t]).m] = t, !.todo[t] = Tail(@)]
    /\ UNCHANGED <<core, gen, msg, srv, io, wrk, reg, mx, eq, stats, fr>>

\* std::mutex::unlock
LkUnlock(t) ==
    /\ lk.todo[t] # <<>>
    /\ Head(lk.todo[t]).op = "unlock"
    /\ lk' = [lk EXCEPT !.held[Head(lk.todo[t]).m] = "none", !.todo[t] = Tail(@)]
    /\ UNCHANGED <<core, gen, msg, srv, io, wrk, reg, mx, eq, stats, fr>>

\* "handle.resume()" is entered, or returns at the coroutine's next suspension
LkResume(t) ==
    /\ lk.todo[t] # <<>>
    /\ Head(lk.todo[t]).op \in {"resume", "return"}
    /\ lk' = [lk EXCEPT !.todo[t] = Tail(@)]
    /\ UNCHANGED <<core, gen, msg, srv, io, wrk, reg, mx, eq, stats, fr>>

SpecLk ==
    /\ Init
    /\ [][
            \/ \E t \in LockThreads : \E script \in AllOperations : LkCall(t, script)
            \/ \E t \in LockThreads : LkLock(t)
            \/ \E t \in LockThreads : LkUnlock(t)
            \/ \E t \in LockThreads : LkResume(t)
       ]_vars

\* ---- the response stream of one connection ----
\* The peer's frames arrive as one byte stream: every frame is a 12-byte header
\* followed by body_size bytes.  fr.sent are the frames written so far, fr.pos is
\* the number of bytes the session has consumed, and the k-th task the session
\* sends carries the id k.
FrameHeaders == [task_id : 0..MaxReplies, body_size : 0..MaxBody]
RECURSIVE FrameStart(_, _)
FrameStart(q, i) ==
    IF i = 1 THEN 0 ELSE FrameStart(q, i - 1) + kHeaderSize + q[i - 1].body_size
StreamLen(q) == FrameStart(q, Len(q) + 1)
FrameBoundaries(q) == {FrameStart(q, i) : i \in 1..Len(q) + 1}

\* the 12 bytes at offset p of the stream, as a header: the header of the frame
\* that starts at p, else bytes that belong to a body and to the header after it
HeadersAt(q, p) ==
    IF \E i \in 1..Len(q) : FrameStart(q, i) = p
    THEN {q[i] : i \in {j \in 1..Len(q) : FrameStart(q, j) = p}}
    ELSE FrameHeaders

\* run_coroutine: get_next_task, then the header and the payload are written
FrWrite ==
    /\ fr.pc = "write"
    /\ fr.requests < MaxReplies
    /\ fr' = [fr EXCEPT !.requests = @ + 1, !.pc = "read_header"]
    /\ UNCHANGED <<core, gen, msg, srv, io, wrk, reg, mx, eq, stats, lk>>

\* the peer answers a request with one frame: h.task_id is the id of the request
\* (the worker's write_response echoes header.task_id) or another id
FrPeerResponds(h) ==
    /\ Len(fr.sent) < fr.requests
    /\ h.task_id \in {Len(fr.sent) + 1, 0}
    /\ fr' = [fr EXCEPT !.sent = Append(@, h)]
    /\ UNCHANGED <<core, gen, msg, srv, io, wrk, reg, mx, eq, stats, lk>>

\* run_coroutine: async_read_header takes sizeof(response) bytes; on a task_id
\* mismatch record_task_failed, add_task, "continue"; else the body is read when
\* body_size > 0
FrReadHeader(h) ==
    /\ fr.pc = "read_header"
    /\ StreamLen(fr.sent) - fr.pos >= kHeaderSize
    /\ h \in HeadersAt(fr.sent, fr.pos)
    /\ fr' = [fr EXCEPT !.pos = @ + kHeaderSize, !.response = h,
                        !.pc = IF ~correlation_ok(h, [task_id |-> fr.requests])
                               THEN "write"
                               ELSE IF h.body_size > 0 THEN "read_body" ELSE "write"]
    /\ UNCHANGED <<core, gen, msg, srv, io, wrk, reg, mx, eq, stats, lk>>

\* run_coroutine: "response_body.resize(response.body_size)" and async_read of
\* as many bytes
FrReadBody ==
    /\ fr.pc = "read_body"
    /\ StreamLen(fr.sent) - fr.pos >= fr.response.body_size
    /\ fr' = [fr EXCEPT !.pos = @ + fr.response.body_size, !.pc = "write"]
    /\ UNCHANGED <<core, gen, msg, srv, io, wrk, reg, mx, eq, stats, lk>>

SpecFr ==
    /\ Init
    /\ [][
            \/ FrWrite
            \/ \E h \in FrameHeaders : FrPeerResponds(h)
            \/ \E h \in FrameHeaders : FrReadHeader(h)
            \/ FrReadBody
       ]_vars

\* ---- properties ----
InSeq(x, q) == \E i \in 1..Len(q) : q[i] = x
Count(x, q) == Cardinality({i \in 1..Len(q) : q[i] = x})
IsPrefix(p, q) == Len(p) <= Len(q) /\ SubSeq(q, 1, Len(p)) = p
RECURSIVE SumOver(_, _)
SumOver(f, S) == IF S = {} THEN 0
                 ELSE LET x == CHOOSE y \in S : TRUE IN f[x] + SumOver(f, S \ {x})

\* ---- add_tasks next to repeated add_task ----
\* the critical section that add_task and the loop body of add_tasks share: the
\* task is pushed, or reaches the front waiter through its result cell
add_element(p, t) ==
    LET r == add_task_locked(t, p.waiting_sessions_, p.tasks_) IN
    [p EXCEPT !.waiting_sessions_ = r.W, !.tasks_ = r.T,
              !.got = IF r.waiter = NoSession THEN @
                      ELSE [@ EXCEPT ![r.waiter] = Append(@, t)],
              !.idx = @ + 1, !.locked = (r.waiter = NoSession)]

\* get_next_task as one step: resumed at once after shutdown or with the front
\* task, registered as a waiter otherwise
get_next_task(p, c) ==
    IF p.shutdown_ THEN [p EXCEPT !.got[c] = Append(@, 0)]
    ELSE IF p.tasks_ # <<>>
    THEN [p EXCEPT !.got[c] = Append(@, tasks_front(p.tasks_)),
                   !.tasks_ = tasks_pop_front(@)]
    ELSE [p EXCEPT !.waiting_sessions_ = Append(@, c)]

\* the swap and the drain loop of shutdown(): every waiter resumes with no task
RECURSIVE drain(_, _)
drain(p, W) ==
    IF W = <<>> THEN [p EXCEPT !.waiting_sessions_ = <<>>]
    ELSE drain([p EXCEPT !.got[waiters_front(W)] = Append(@, 0)], waiters_pop(W))

\* the producers are handed the same vector: the tasks 1..k in order
EqCall(v) ==
    /\ eq.batch.pc = "idle"
    /\ eq.single.pc = "idle"
    /\ eq' = [eq EXCEPT !.v = v, !.batch.pc = "check", !.single.pc = "check"]
    /\ UNCHANGED <<core, gen, msg, srv, io, wrk, reg, mx, stats, lk, fr>>

\* add_tasks(v): "if (shutdown_.load()) return", once, before the loop
EqAddTasksCheck ==
    /\ eq.batch.pc = "check"
    /\ eq' = [eq EXCEPT !.batch = IF @.shutdown_
                                  THEN [@ EXCEPT !.pc = "done", !.idx = Len(eq.v)]
                                  ELSE [@ EXCEPT !.pc = "loop"]]
    /\ UNCHANGED <<core, gen, msg, srv, io, wrk, reg, mx, stats, lk, fr>>

\* one iteration of the for loop of add_tasks under the lock (taken at the start,
\* retaken after a resume), or the end of the loop
EqAddTasksIteration ==
    /\ eq.batch.pc = "loop"
    /\ eq' = [eq EXCEPT !.batch = IF @.idx = Len(eq.v)
                                  THEN [@ EXCEPT !.pc = "done", !.locked = FALSE]
                                  ELSE add_element(@, eq.v[@.idx + 1])]
    /\ UNCHANGED <<core, gen, msg, srv, io, wrk, reg, mx, stats, lk, fr>>

\* the next add_task(v[i]) call: "if (shutdown_.load()) return", on every call
EqAddTaskCheck ==
    /\ eq.single.pc = "check"
    /\ eq' = [eq EXCEPT !.single =
                 IF @.shutdown_
                 THEN [@ EXCEPT !.idx = @ + 1,
                                !.pc = IF eq.single.idx + 1 = Len(eq.v) THEN "done"
                                       ELSE "check"]
                 ELSE [@ EXCEPT !.pc = "lock"]]
    /\ UNCHANGED <<core, gen, msg, srv, io, wrk, reg, mx, stats, lk, fr>>

\* add_task(v[i]) under the lock, up to its return
EqAddTaskLocked ==
    /\ eq.single.pc = "lock"
    /\ eq' = [eq EXCEPT !.single =
                 [add_element(@, eq.v[@.idx + 1]) EXCEPT
                     !.locked = FALSE,
                     !.pc = IF eq.single.idx + 1 = Len(eq.v) THEN "done" ELSE "check"]]
    /\ UNCHANGED <<core, gen, msg, srv, io, wrk, reg, mx, stats, lk, fr>>

\* both producers stand between the same two elements of v (or before the first,
\* or after the last, or before the call); with mutex, add_tasks has moreover not
\* held the mutex all the time since the previous element
BetweenElements(mutex) ==
    /\ mutex => ~(eq.batch.pc = "loop" /\ eq.batch.locked)
    /\ eq.batch.idx = eq.single.idx
    /\ eq.single.pc \in {"idle", "check", "done"}
    /\ \/ eq.batch.pc \in {"idle", "check", "done"}
       \/ eq.batch.pc = "loop" /\ eq.batch.idx > 0

\* another thread's shutdown(): the compare_exchange, which needs no lock
EqShutdownCas ==
    /\ BetweenElements(FALSE)
    /\ eq.stop = "idle"
    /\ eq' = [eq EXCEPT !.stop = "swap",
                        !.batch.shutdown_ = TRUE, !.single.shutdown_ = TRUE]
    /\ UNCHANGED <<core, gen, msg, srv, io, wrk, reg, mx, stats, lk, fr>>

\* the rest of that shutdown(): swap under the lock, resume the waiters
EqShutdownDrain ==
    /\ BetweenElements(TRUE)
    /\ eq.stop = "swap"
    /\ eq' = [eq EXCEPT !.stop = "done",
                        !.batch = drain(@, swap_waiters(@.waiting_sessions_)),
                        !.single = drain(@, swap_waiters(@.waiting_sessions_))]
    /\ UNCHANGED <<core, gen, msg, srv, io, wrk, reg, mx, stats, lk, fr>>

\* a consumer that is not suspended in the pool awaits get_next_task
EqGetNextTask(c) ==
    /\ BetweenElements(TRUE)
    /\ eq.awaits[c] < MaxAwaits
    /\ ~InSeq(c, eq.batch.waiting_sessions_)
    /\ ~InSeq(c, eq.single.waiting_sessions_)
    /\ eq' = [eq EXCEPT !.awaits[c] = @ + 1,
                        !.batch = get_next_task(@, c), !.single = get_next_task(@, c)]
    /\ UNCHANGED <<core, gen, msg, srv, io, wrk, reg, mx, stats, lk, fr>>

SpecEq ==
    /\ Init
    /\ [][
            \/ \E k \in 1..MaxVec : EqCall([i \in 1..k |-> i])
            \/ EqAddTasksCheck
            \/ EqAddTasksIteration
            \/ EqAddTaskCheck
            \/ EqAddTaskLocked
            \/ EqShutdownCas
            \/ EqShutdownDrain
            \/ \E c \in Consumers : EqGetNextTask(c)
       ]_vars

\* this step is the critical section of an add_task or add_tasks call; AddedTask is
\* the task it handles first
ProducerAdds == prod.pc \in {"add_task_lock", "add_tasks_lock"} /\ prod'.pc # prod.pc
RequeueAdds(s) == sess[s].pc = "requeue_lock" /\ sess'[s].pc # "requeue_lock"
AddStep == ProducerAdds \/ \E s \in Sessions : RequeueAdds(s)
AddedTask == IF ProducerAdds THEN prod.vec[1]
             ELSE sess[CHOOSE s \in Sessions : RequeueAdds(s)].task

\* C1: in every reachable state the task deque is empty or the waiter queue is
\* empty (never both non-empty).
PoolExclusion == pool.tasks_ = <<>> \/ pool.waiting_sessions_ = <<>>

\* C1 witness: an add_task call is about to run its critical section while a
\* consumer is suspended and tasks were accepted before.
PoolExclusionWitness ==
    /\ prod.pc = "add_task_lock"
    /\ pool.waiting_sessions_ # <<>>
    /\ hist.accepted # {}

\* C2: no wakeup is lost.  (a) An enqueue that finds exactly one consumer suspended
\* resumes that consumer with exactly the enqueued task and leaves the pool empty.
\* (b) A suspended consumer is always where a resumer finds it (the waiter queue,
\* with the deque empty, or shutdown's local queue): no enqueue falls between its
\* failed fast-path check and its registration.
HandOffToSingleWaiter ==
    (AddStep /\ Len(pool.waiting_sessions_) = 1) =>
        LET w == pool.waiting_sessions_[1] IN
        /\ sess'[w].task = AddedTask
        /\ sess'[w].pc = "write_header"
        /\ pool'.tasks_ = <<>>
        /\ pool'.waiting_sessions_ = <<>>
NoStrandedConsumer ==
    \A s \in Sessions : sess[s].pc = "waiting" =>
        \/ InSeq(s, pool.waiting_sessions_) /\ pool.tasks_ = <<>>
        \/ InSeq(s, stop.waiters_to_resume)
\* C2: no wakeup is lost: parts (a) and (b) above, in every step and every state.
NoLostWakeup == [](NoStrandedConsumer) /\ [][HandOffToSingleWaiter]_vars

\* C2 witness: add_task has handed its task to the only suspended consumer.
NoLostWakeupWitness ==
    /\ prod.pc = "add_task_resume"
    /\ pool.waiting_sessions_ = <<>>
    /\ pool.tasks_ = <<>>
    /\ sess[prod.resumee].pc = "write_header"
    /\ \A s \in Sessions : sess[s].pc # "waiting"

\* the places a task can be: the pool's deque, a session between receiving it and
\* completing or requeueing it, a session's completed work
HoldingPcs == {"write_header", "write_payload", "read_header", "read_body",
               "requeue", "requeue_lock"}
Holds(s, id) == sess[s].pc \in HoldingPcs /\ sess[s].task.task_id = id
Places(id) ==
    Count(id, Ids(pool.tasks_))
    + Cardinality({s \in Sessions : Holds(s, id)})
    + SumOver([s \in Sessions |-> Count(id, hist.completed[s])], Sessions)

\* C3: every task the pool accepted is in exactly one place: the pool's deque, held
\* by exactly one session, or completed; no path of a session (mismatch, I/O error,
\* exception, pool shutdown, exit) drops or duplicates it.
TaskInOnePlace == \A id \in hist.accepted : Places(id) = 1

\* C4: with workers that answer every request correctly and connections that do
\* not fail, every task the pool accepted is eventually completed, exactly once
\* over all sessions, no session records a failure, and in the end the sessions'
\* tasks_completed add up to the number of tasks enqueued.
CompletedOnce(id) ==
    SumOver([s \in Sessions |-> Count(id, hist.completed[s])], Sessions) = 1
TotalCompleted == SumOver([s \in Sessions |-> sess[s].stats_.tasks_completed], Sessions)
NeverTwiceNorFailed ==
    /\ \A id \in 1..MaxTasks :
         SumOver([s \in Sessions |-> Count(id, hist.completed[s])], Sessions) <= 1
    /\ \A s \in Sessions : sess[s].stats_.tasks_failed = 0
\* C4: every accepted task is eventually completed and stays completed exactly once,
\* nothing is completed twice or fails, and the completions add up to the tasks enqueued.
AllTasksComplete ==
    /\ \A id \in 1..MaxTasks : (id \in hist.accepted) ~> [](CompletedOnce(id))
    /\ [](NeverTwiceNorFailed)
    /\ <>[](TotalCompleted = Cardinality(hist.accepted) /\ TotalCompleted = MaxTasks)

\* C4 witness: all tasks were enqueued and completed, some by each session.
AllTasksCompleteWitness ==
    /\ TotalCompleted = MaxTasks
    /\ \A s \in Sessions : sess[s].stats_.tasks_completed >= 1
    /\ \A s \in Sessions : sess[s].pc = "waiting"

\* C5: tasks_completed is incremented, by one, only in a step in which the response
\* header the session holds has the task_id and the skill_id of the task it sent.
CompletionCorrelated ==
    \A s \in Sessions :
        sess'[s].stats_.tasks_completed # sess[s].stats_.tasks_completed =>
            /\ sess'[s].stats_.tasks_completed = sess[s].stats_.tasks_completed + 1
            /\ sess'[s].response.task_id = sess[s].task.task_id
            /\ sess'[s].response.skill_id = sess[s].task.skill_id
            /\ sess[s].pc \in {"read_header", "read_body"}
\* C5: every step that changes a tasks_completed counter is a correlated completion.
CompletedOnlyOnMatch == [][CompletionCorrelated]_vars

\* C5 witness: a session counted a completion after a worker had sent a wrong
\* header, which was not counted.
CompletedOnlyOnMatchWitness ==
    \E s \in Sessions :
        /\ sess[s].stats_.tasks_completed = 1
        /\ sess[s].pc = "loop"
        /\ sess[s].response.task_id = sess[s].task.task_id
        /\ hist.faults = 1
        /\ \E u \in Sessions : sess[u].stats_.tasks_failed = 1

\* C6: a session's state only moves forward along INITIALIZING, ACTIVE,
\* COMPLETING, then TERMINATED or ERROR_STATE, and a session that is TERMINATED or
\* ERROR_STATE never changes state again, whatever request_termination does.
StateRank(st) ==
    CASE st = "INITIALIZING" -> 0
      [] st = "ACTIVE" -> 1
      [] st = "COMPLETING" -> 2
      [] OTHER -> 3
StateForward ==
    \A s \in Sessions :
        /\ StateRank(sess'[s].state_) >= StateRank(sess[s].state_)
        /\ is_completed(sess[s]) => sess'[s].state_ = sess[s].state_
\* C6: every step moves each session's state forward or leaves it alone.
SessionStateMonotonic == [][StateForward]_vars

\* C7: shutdown resumes every consumer suspended at that moment exactly once, each
\* observing an invalid task; it leaves the waiter queue empty; and a consumer that
\* races with it is never left suspended in the queue once shutdown has returned.
ShutdownSwapped == pool.shutdown_ /\ stop.pc # "swap"
ShutdownReturned == pool.shutdown_ /\ stop.pc = "idle"
RegisteredOnce ==
    \A s \in Sessions :
        Count(s, pool.waiting_sessions_) + Count(s, stop.waiters_to_resume)
            = IF sess[s].pc = "waiting" THEN 1 ELSE 0
ShutdownLeavesNoWaiter ==
    /\ RegisteredOnce
    /\ ShutdownSwapped => pool.waiting_sessions_ = <<>>
    /\ ShutdownReturned => \A s \in Sessions : sess[s].pc # "waiting"
ShutdownWakes ==
    (stop.pc = "drain" /\ stop.waiters_to_resume # <<>>
        /\ stop'.waiters_to_resume # stop.waiters_to_resume) =>
        LET w == Head(stop.waiters_to_resume) IN
        /\ sess[w].pc = "waiting"
        /\ sess'[w].pc = "exit"
        /\ ~is_valid(sess'[w].task)
        /\ stop'.waiters_to_resume = Tail(stop.waiters_to_resume)
        /\ \A u \in Sessions \ {w} : sess'[u] = sess[u]
\* C7: shutdown leaves no consumer registered or suspended, and wakes each consumer
\* of its local queue once, with an invalid task.
ShutdownReleasesAll == [](ShutdownLeavesNoWaiter) /\ [][ShutdownWakes]_vars

\* C7 witness: shutdown found both consumers suspended, has resumed the first of
\* them and has the second one left to resume.
ShutdownReleasesAllWitness ==
    /\ stop.pc = "drain"
    /\ stop.resumee # NoSession
    /\ sess[stop.resumee].pc = "exit"
    /\ Len(stop.waiters_to_resume) = 1
    /\ pool.waiting_sessions_ = <<>>

\* C8: a task a session requeues reappears in the pool with the same task_id,
\* skill_id and payload: at the back of the deque, or (the deque being empty)
\* handed as it is to the consumer at the front of the waiter queue.
RequeueKeepsTask ==
    \A s \in Sessions :
        (sess[s].pc \in {"requeue", "requeue_lock"}
            /\ sess'[s].pc \notin {"requeue", "requeue_lock"}) =>
            \/ /\ pool'.tasks_ # <<>>
               /\ pool'.tasks_[Len(pool'.tasks_)] = sess[s].task
               /\ Len(pool'.tasks_) = Len(pool.tasks_) + 1
            \/ /\ pool.waiting_sessions_ # <<>>
               /\ sess'[Head(pool.waiting_sessions_)].task = sess[s].task
               /\ sess'[Head(pool.waiting_sessions_)].pc = "write_header"
\* C8: every requeue puts the unchanged task back into the pool.
RequeuePreservesTask == [][RequeueKeepsTask]_vars

\* C9: while the pool is filled through add_task only and no add_task finds a
\* consumer suspended, tasks leave the pool in the order in which they entered it
\* (orders taken at the pool's mutex), whichever consumers take them.
PoolFifo == hist.fifo_premise => IsPrefix(hist.delivered, hist.added)

\* C9 witness: two tasks entered the pool under the premise and both were
\* delivered, to two different sessions.
PoolFifoWitness ==
    /\ hist.fifo_premise
    /\ Len(hist.delivered) = 2
    /\ \A s \in Sessions : sess[s].stats_.tasks_sent = 1

\* C10: an add that finds consumers suspended gives its task to the consumer at
\* the front of the waiter queue, the one suspended longest, resumes no other
\* consumer, and does not place the task on the deque.
HandOffToOldest ==
    (AddStep /\ pool.waiting_sessions_ # <<>>) =>
        LET w == Head(pool.waiting_sessions_) IN
        /\ sess'[w].task = AddedTask
        /\ sess'[w].pc = "write_header"
        /\ \A u \in Sessions \ {w} : sess[u].pc = "waiting" => sess'[u].pc = "waiting"
        /\ pool'.waiting_sessions_ = Tail(pool.waiting_sessions_)
        /\ pool'.tasks_ = pool.tasks_
\* C10: every hand-off goes to the front of the waiter queue and bypasses the deque.
WaitersFifo == [][HandOffToOldest]_vars

\* C10 witness: add_task found two consumers suspended and resumed the first of
\* the queue; the second is still queued.
WaitersFifoWitness ==
    /\ prod.pc = "add_task_resume"
    /\ Len(pool.waiting_sessions_) = 1
    /\ sess[Head(pool.waiting_sessions_)].pc = "waiting"
    /\ sess[prod.resumee].pc = "write_header"
    /\ pool.tasks_ = <<>>

\* ---- the session's socket operations ----
RequeuePcs == {"requeue", "requeue_lock", "requeue_resume"}
FrameSize(t) == kHeaderSize + Len(t.payload)

\* a step in which session s starts an operation on its adapter
OperationStartsAlone ==
    \A s \in Sessions :
        (sess'[s].pc \in IoPcs /\ sess'[s].pc # sess[s].pc) => ~sess'[s].io_pending
\* a step that registers an operation with the I/O context registers the
\* operation the coroutine is suspended on, and only when none is registered
RegistersCurrent ==
    \A s \in Sessions :
        (sess'[s].io_pending /\ ~sess[s].io_pending) =>
            sess[s].pc \in IoPcs /\ sess'[s].pc = sess[s].pc
\* a registered operation is the one operation its coroutine awaits
PendingIsCurrent ==
    \A s \in Sessions :
        sess[s].io_pending =>
            sess[s].pc \in IoPcs /\ ~InSeq(s, pool.waiting_sessions_)
\* C11: at most one operation is in flight on a session's socket adapter: while
\* an operation is registered as pending with the I/O context the coroutine sits at
\* that operation's await, and every step that starts a new operation on the
\* adapter leaves no earlier operation registered.
OneOperationInFlight ==
    /\ [](PendingIsCurrent)
    /\ [][OperationStartsAlone /\ RegistersCurrent]_vars

\* C11 witness: the fourth operation of a round trip (read of the response body)
\* is pending after the write and the header read before it were pending and
\* completed.
OneOperationInFlightWitness ==
    \E s \in Sessions :
        /\ sess[s].pc = "read_body"
        /\ sess[s].io_pending
        /\ sess[s].stats_.tasks_sent = 1

\* while the response is read, every byte of the request has been transferred
RequestFullyWritten ==
    \A s \in Sessions :
        sess[s].pc \in {"read_header", "read_body"} =>
            sess[s].sent = FrameSize(sess[s].task)
\* a session takes a task from the pool only when every task it took before
\* has been counted completed or failed
ClassifiedBeforeNext ==
    \A s \in Sessions :
        sess'[s].stats_.tasks_sent # sess[s].stats_.tasks_sent =>
            /\ sess'[s].stats_.tasks_sent = sess[s].stats_.tasks_sent + 1
            /\ sess[s].stats_.tasks_sent =
                   sess[s].stats_.tasks_completed + sess[s].stats_.tasks_failed
\* C12: within a session the operations are strictly sequenced: the whole request
\* (header and payload bytes) has been written when the read of the response
\* begins, and no further task is acquired before the current round trip is
\* classified.
StrictSequencing ==
    /\ [](RequestFullyWritten)
    /\ [][ClassifiedBeforeNext]_vars

\* C13: an I/O operation of the session loop that fails with a system_error ends
\* the session: finalize_session leaves it TERMINATED for a lost connection and
\* ERROR_STATE for any other code, with the socket closed, and from the catch
\* block on the session takes no further task.
IoErrorEndsSession ==
    \A s \in Sessions :
        /\ (sess[s].err \in {"lost", "other"} /\ sess[s].pc = "finalize"
               /\ sess'[s].pc = "done") =>
               /\ sess'[s].state_ = state_after_error(sess[s].err)
               /\ ~sess'[s].sock_open
        /\ (sess[s].err \in {"lost", "other"} /\ sess[s].pc \in RequeuePcs
               /\ sess'[s].pc \notin RequeuePcs) => sess'[s].pc = "io_failed"
        /\ sess[s].pc \in {"io_failed", "finalize", "done"} =>
               /\ sess'[s].pc \in {"io_failed", "finalize", "done"}
               /\ sess'[s].stats_.tasks_sent = sess[s].stats_.tasks_sent
IoErrorClassified == [][IoErrorEndsSession]_vars

\* session s is handling a response whose task_id or skill_id did not match
SoftError(s) == sess[s].err = "none" /\ sess[s].pc \in RequeuePcs
\* C14: a response with another task_id or skill_id is a soft error: the step that
\* reads it counts one failure; the requeue always runs add_task's critical
\* section, which puts exactly one copy of the task at the back of the deque or
\* into the result cell of the front waiter; the session's state is left as it
\* was and the session goes back to the head of its loop with the failure counted
\* once.
SoftErrorStep ==
    \A s \in Sessions :
        /\ (sess[s].pc \in {"read_header", "read_body"} /\ sess'[s].pc = "requeue"
               /\ sess'[s].err = "none") =>
               /\ sess'[s].stats_.tasks_failed = sess[s].stats_.tasks_failed + 1
               /\ sess'[s].task = sess[s].task
               /\ sess'[s].state_ = sess[s].state_
        /\ (SoftError(s) /\ sess[s].pc = "requeue" /\ sess'[s].pc # "requeue") =>
               sess'[s].pc = "requeue_lock"
        /\ (SoftError(s) /\ sess[s].pc = "requeue_lock" /\ sess'[s].pc # "requeue_lock") =>
               IF pool.waiting_sessions_ = <<>>
               THEN pool'.tasks_ = Append(pool.tasks_, sess[s].task)
               ELSE /\ pool'.tasks_ = pool.tasks_
                    /\ sess'[Head(pool.waiting_sessions_)].task = sess[s].task
        /\ (SoftError(s) /\ sess'[s].pc \notin RequeuePcs) =>
               /\ sess'[s].pc = "loop"
               /\ sess'[s].stats_ = sess[s].stats_
               /\ sess'[s].state_ = sess[s].state_
SoftErrorRequeuesOnce == [][SoftErrorStep]_vars

\* C15: a session that read a response header with body_size above the maximum
\* frame size attempts no read of the body and is in the Error state.
OversizeBodyRejected ==
    \A s \in Sessions :
        sess[s].response.body_size > max_frame_size =>
            /\ sess[s].pc # "read_body"
            /\ sess[s].state_ = "ERROR_STATE"

\* the pcs of a get_next_task call in progress
GetNextTaskPcs == {"ready", "ready_lock", "suspend", "suspend_lock", "waiting"}
\* C20: get_next_task returns the front task whenever the deque is non-empty when
\* the call looks at the pool, and yields an invalid task only when the deque is
\* empty and the pool is shut down.
GetNextTaskStep ==
    \A s \in Sessions :
        /\ (sess[s].pc \in GetNextTaskPcs /\ sess'[s].pc = "exit") =>
               pool.tasks_ = <<>> /\ pool.shutdown_
        /\ (sess[s].pc \in {"ready", "ready_lock", "suspend", "suspend_lock"}
               /\ sess'[s].pc # sess[s].pc /\ pool.tasks_ # <<>>) =>
               \/ sess'[s].pc = "write_header" /\ sess'[s].task = Head(pool.tasks_)
               \/ sess[s].pc \in {"ready", "suspend"} /\ sess'[s].pc \in GetNextTaskPcs
InvalidOnlyWhenEmpty == [][GetNextTaskStep]_vars

\* C16: once request_termination() has been called on a session, the session
\* eventually reaches TERMINATED, whatever it was doing at the call (at the least
\* its coroutine eventually leaves the loop and ends).
TerminationReachesTerminated ==
    \A s \in Sessions :
        sess[s].termination_requested_ ~>
            (sess[s].state_ = "TERMINATED" \/ sess[s].pc = "done")

\* every frame being written or answered carries a valid id, and so does every
\* task waiting on the deque
NoZeroOnWire ==
    /\ \A s \in Sessions : sess[s].pc \in IoPcs => is_valid(sess[s].task)
    /\ \A i \in 1..Len(pool.tasks_) : is_valid(pool.tasks_[i])
\* a get_next_task call that yields an invalid task does so after shutdown()
InvalidAfterShutdown ==
    \A s \in Sessions :
        (sess[s].pc \in GetNextTaskPcs /\ sess'[s].pc \notin GetNextTaskPcs
            /\ ~is_valid(sess'[s].task)) => pool.shutdown_ /\ sess'[s].pc = "exit"
\* C17: no frame with task_id 0 is written to a connection, and get_next_task
\* yields an invalid task (task_id 0) only after the pool has been shut down; the
\* ids come from the generator, whose counter may wrap.
SentinelNeverOnWire ==
    /\ [](NoZeroOnWire)
    /\ [][InvalidAfterShutdown]_vars

\* C17 witness: the id counter has wrapped past 0, a session is sending a task
\* made after the wrap, and another session left get_next_task with an invalid
\* task after shutdown.
SentinelNeverOnWireWitness ==
    /\ gen.made >= IdModulus
    /\ pool.shutdown_
    /\ \E s, u \in Sessions :
           /\ sess[s].pc \in IoPcs
           /\ sess[s].stats_.tasks_sent + sess[u].stats_.tasks_sent = MaxGenerated
           /\ sess[u].pc = "exit"
           /\ ~is_valid(sess[u].task)

\* C18: for every TaskMessage reached through its constructor, set_payload and
\* append_to_payload in any order, the header's body_size equals the number of
\* payload bytes (what header_view() and payload_bytes() give a session for the
\* frame it writes); the protocol limit on the size is never exceeded.
SizeConsistency ==
    /\ msg.body_size = Len(msg.payload)
    /\ Len(msg.payload) <= uint32_max

\* C18 witness: a payload of the largest size the header can state, put together
\* by append_to_payload from different pieces.
SizeConsistencyWitness ==
    /\ Len(msg.payload) = uint32_max
    /\ msg.body_size = uint32_max
    /\ msg.payload[1] # msg.payload[uint32_max]
    /\ msg.payload[1] # msg.payload[2]

\* C19: after stop() the acceptor thread terminates, after at most one further
\* return of blocking_accept, so stop()'s join returns and stop() completes.
AcceptBoundedShutdown ==
    /\ [](srv.late_returns <= 1)
    /\ (srv.ctl = "join") ~> (srv.acc \in {"none", "done"})
    /\ (srv.ctl = "join") ~> (srv.ctl = "stopped")

\* C19 witness: stop() has completed on a server that accepted connections; the
\* acceptor was inside blocking_accept when stop() was called and has ended.
AcceptBoundedShutdownWitness ==
    /\ srv.ctl = "stopped"
    /\ srv.acc = "done"
    /\ srv.late_returns = 1
    /\ srv.active_connections_ >= 1

\* C21: once shutdown() has set the flag, no call of add_task or add_tasks (by the
\* producer or by a session's requeue), including one racing with shutdown(), puts
\* a task on the deque or hands a task to a waiting consumer.
NoAddAfterShutdown ==
    [][AddStep => ~pool.shutdown_]_vars

\* a write operation of session s ends in this step having transferred fewer
\* bytes than it was asked to
ShortTransfer(s) ==
    /\ sess[s].pc \in {"write_header", "write_payload"}
    /\ sess'[s].pc # sess[s].pc
    /\ sess'[s].sent < sess[s].sent + write_size(sess[s])
\* C22: a frame counts as transferred only when all its bytes were transferred: an
\* operation that ends with fewer bytes than requested is fatal to the session,
\* which goes on to no further operation of the frame exchange.
ShortTransferIsFatal ==
    [][\A s \in Sessions : ShortTransfer(s) => sess'[s].pc \notin IoPcs]_vars

\* ---- the I/O context's pending operations ----
\* how often operation o occurs in a vector of pending ops
Occurrences(q, o) == Cardinality({i \in 1..Len(q) : q[i].id = o})
\* in how many places operation o is held: the shared queue and each thread's batch
HeldIn(o) ==
    Occurrences(io.pending_ops_, o)
    + SumOver([t \in IoThreads |->
                  Occurrences(io.thr[t].fetched, o) + Occurrences(io.thr[t].requeue, o)],
              IoThreads)
LeavesLoop(t) == io.thr[t].pc # "exited" /\ io'.thr[t].pc = "exited"
\* C29: a worker thread leaves its loop only with the running flag cleared and the
\* outstanding-work counter at zero, so a held work guard keeps the threads
\* processing after stop() was called; stop() returns only when every thread has
\* left, and once the flag is cleared and the guards are released it does return.
WorkGuardKeepsLoopAlive ==
    /\ [][\A t \in IoThreads :
            LeavesLoop(t) => ~io.running_ /\ io.outstanding_work_ = 0]_vars
    /\ [](io.ctl = "stopped" => \A t \in IoThreads : io.thr[t].pc = "exited")
    /\ (io.ctl = "join") ~> (io.ctl = "stopped")

\* C29 witness: stop() has returned although a work guard was held when it was
\* called: the threads resumed an operation after the flag was cleared, left when
\* the guard was released, and operations registered later stay in the queue.
WorkGuardKeepsLoopAliveWitness ==
    /\ io.ctl = "stopped"
    /\ io.guards = MaxGuards
    /\ io.outstanding_work_ = 0
    /\ io.late_resumes >= 1
    /\ io.pending_ops_ # <<>>

\* ---- the worker's responses ----
\* the worker has just answered the request in wrk.header
Answered == wrk.pc = "pause_check" /\ wrk.response.task_id = wrk.header.task_id
                /\ wrk.response.task_id # 0
\* the manager's reading of the worker's response frame
response_header(f) == [task_id |-> f.task_id, skill_id |-> f.skill_id,
                       body_size |-> Len(f.payload)]
\* C24: the worker's response to a task whose skill it does not know carries
\* another skill_id than the request, so the manager's check of the response
\* fails and the manager requeues the task instead of counting it completed.
UnknownSkillMismatch ==
    (Answered /\ ~known_skill(wrk.header.skill_id)) =>
        /\ wrk.response.skill_id # wrk.header.skill_id
        /\ ~skill_ok(response_header(wrk.response), wrk.header)

\* the control loop has ended, the socket is released and the status is "Stopped"
WorkerStopped ==
    wrk.pc = "stopped" /\ ~wrk.sock.exists /\ wrk.connection_status_ = "Stopped"
\* C30: after shutdown() was called, in whatever phase the worker was, the control
\* loop of start() eventually ends with the runtime's socket released and the
\* status "Stopped", and no connection attempt is started after the call.
ShutdownStopsWorker ==
    /\ (wrk.ui = "returned") ~> WorkerStopped
    /\ [][(wrk.pc = "connect" /\ wrk'.pc = "connecting") => wrk.ui # "returned"]_vars

\* ---- the skill registry ----
\* C26: while a thread executes a handler in dispatch, that handler object is
\* alive and still the one registered for the skill: register_skill for the same
\* id and clear() running at the same time neither destroy nor replace it.
HandlerAliveInDispatch ==
    \A d \in Dispatchers :
        reg.disp[d].pc = "process" =>
            /\ reg.disp[d].handler \in reg.alive
            /\ reg.skills_[reg.disp[d].skill_id] = reg.disp[d].handler

\* C25: an exception thrown by a skill handler while a task is processed is caught
\* and turned into a failed outcome: no call of dispatch ends with the exception
\* leaving it towards the worker's run loop (whose call of the processor, like the
\* control loop of start(), is outside every try block).
HandlerExceptionContained ==
    \A d \in Dispatchers : reg.disp[d].pc # "threw"

\* the thread t is inside a "handle.resume()" call
InResume(t) ==
    mx.pc[t] \in {"self_resume", "add_task_resume", "add_tasks_resume", "shutdown_resume"}

\* C28: the pool's mutex is never held by a thread that is resuming a consumer's
\* continuation: in get_next_task (await_suspend), add_task, add_tasks and shutdown
\* every resume happens after the thread has released the mutex.
MutexReleasedBeforeResume ==
    \A t \in PoolThreads : InResume(t) => mx.mutex_ # t

\* add_tasks is inside a resume while a consumer holds the mutex, after shutdown()
\* has set the flag
MutexReleasedBeforeResumeWitness ==
    /\ mx.pc[Producer] = "add_tasks_resume"
    /\ mx.mutex_ \in Consumers
    /\ mx.shutdown_

\* what the pool's users can see of a pool
Observable(p) ==
    [tasks_ |-> p.tasks_, waiting_sessions_ |-> p.waiting_sessions_, got |-> p.got]

\* C27: add_tasks(v) has the effect of add_task on each element of v in order: with
\* the same pool operations (get_next_task, shutdown) between the same elements,
\* once both producers are through v the same consumers hold the same tasks in the
\* same order, and the deque and the waiter queue have the same contents.
AddTasksAsRepeatedAddTask ==
    (eq.batch.pc = "done" /\ eq.single.pc = "done")
        => Observable(eq.batch) = Observable(eq.single)

\* ---- the worker's control policy ----
\* run_loop has just returned false to start(): a read or a write failed or a
\* header announced more than max_frame_size
RunLoopFailed == wrk.pc = "disconnect_check" /\ ~wrk.success
\* the user has given no command and has not asked for shutdown
NoUserRequest == wrk.issued = <<>> /\ wrk.ui = "idle"
\* C31: when the run loop ends because of a read or write failure or a malformed
\* header, the worker closes the connection and reconnects to the manager: unless
\* the user steps in, the socket's fd is closed and a new connection attempt starts.
RunLoopFailureReconnects ==
    /\ RunLoopFailed ~> (~wrk.sock.fd_open \/ ~NoUserRequest)
    /\ RunLoopFailed ~> (wrk.pc = "connect" \/ ~NoUserRequest)

\* the latest command of the user is disconnect_runtime() and shutdown() was not called
DisconnectInForce ==
    /\ wrk.issued # <<>>
    /\ wrk.issued[Len(wrk.issued)] = "disconnect"
    /\ wrk.ui = "idle"
\* C32: after disconnect_runtime() was called the worker closes its socket and
\* reaches the status "Disconnected", and start() decides on no connection attempt
\* until start_runtime() is called again.
DisconnectHolds ==
    /\ DisconnectInForce ~>
            \/ ~wrk.sock.fd_open /\ wrk.connection_status_ = "Disconnected"
            \/ ~DisconnectInForce
    /\ [][(wrk.pc = "need_connection" /\ wrk'.pc = "connect") => ~DisconnectInForce]_vars

\* the control thread is inside the for (;;) of run_loop
InRunLoop == wrk.pc \in {"pause_check", "read_task", "process", "write_response"}
\* a pause asked for inside the run loop is still pending
PausePending == InRunLoop /\ wrk.pause_requested_
\* the run loop leaves its loop-top test with a pause pending: it returns true,
\* start() sets "Paused", and the socket is as it was
PauseExit ==
    (wrk.pc = "pause_check" /\ wrk.pause_requested_ /\ wrk'.pc # wrk.pc) =>
        /\ wrk'.pc = "disconnect_check" /\ wrk'.success
        /\ wrk'.connection_status_ = "Paused"
        /\ ~wrk'.pause_requested_
        /\ wrk'.sock = wrk.sock
\* start() decides on no connection attempt while the paused connection is open
NoReconnectWhilePaused ==
    (wrk.connection_status_ = "Paused" /\ wrk.sock.fd_open) =>
        ~(wrk.pc = "need_connection" /\ wrk'.pc = "connect")
\* C33 (amended): after pause() was requested while the run loop is running, the
\* loop exits successfully the next time it reaches its loop-top test, without
\* closing the socket: until then at most one task is finished, the one being
\* processed or the one whose read was pending (which may arrive after the
\* request); while the paused connection stays open no connection attempt is
\* made, so that a later start resumes on the same connection.
PauseExitsAtLoopTop ==
    /\ [](PausePending => wrk.tasks_completed_ - wrk.paused_at <= 1)
    /\ [][PauseExit]_vars
    /\ [][NoReconnectWhilePaused]_vars
\* a start after a pause has resumed the run loop on the connection that a task
\* read after the pause request was answered on
PauseExitsAtLoopTopWitness ==
    /\ wrk.issued = <<"pause", "start">>
    /\ wrk.pc = "read_task" /\ wrk.connection_status_ = "Running"
    /\ wrk.sock.fd_open /\ wrk.sock.is_connected_
    /\ wrk.paused_at = 0 /\ wrk.tasks_completed_ = 1
\* C33: after pause() was requested while the run loop is running, the loop exits
\* successfully at its next iteration without closing the socket and a later start
\* resumes on the same connection; at most the task already being processed is
\* finished, so no task is read while the pause is pending.
PauseExitsAtNextIteration ==
    /\ PauseExitsAtLoopTop
    /\ [][(wrk.pc = "read_task" /\ wrk'.pc = "process") => ~wrk.pause_requested_]_vars

\* ---- the statistics of the I/O context ----
Min(a, b) == IF a < b THEN a ELSE b
\* C34: a pending operation's failed-attempt counter is the number of its failed
\* tries up to the largest value of its type, where it stays (it never wraps), and
\* when the operation completes exactly one bucket of its category's histogram
\* is incremented, the one at index min(failed attempts, max_tracked_attempts_ - 1).
AttemptsSaturateAndCount ==
    /\ [](stats.pc = "pending" => stats.op.attempts = Min(stats.failures, 2 ^ AttemptBits - 1))
    /\ [][(stats.pc = "pending" /\ stats'.pc = "none") =>
             \A c \in 0..NumCategories - 1 : \A b \in 0..max_tracked_attempts_ - 1 :
                 stats'.completion_attempt_histograms_[c][b] =
                     stats.completion_attempt_histograms_[c][b]
                       + (IF c = stats.op.category
                             /\ b = Min(stats.op.attempts, max_tracked_attempts_ - 1)
                          THEN 1 ELSE 0)]_vars
\* an operation that failed more often than its counter can tell has completed and
\* was counted in the last bucket of its category
AttemptsSaturateAndCountWitness ==
    /\ stats.pc = "none"
    /\ stats.failures > 2 ^ AttemptBits - 1
    /\ stats.op.attempts = 2 ^ AttemptBits - 1
    /\ stats.completion_attempt_histograms_[stats.op.category][max_tracked_attempts_ - 1] = 1
    /\ stats.total_operations_processed_ = 1

\* ---- the session's counters and its termination ----
\* the session has counted a task as sent and not yet as completed or failed: it is
\* writing the task or reading the response, or it is requeueing the task after an
\* error (the catch blocks count the failure after add_task)
TaskInFlight(sr) ==
    \/ sr.pc \in IoPcs
    \/ sr.pc \in {"requeue", "requeue_lock", "requeue_resume"} /\ sr.err # "none"
\* C39: for every session tasks_sent equals tasks_completed plus tasks_failed
\* whenever no task is in flight (between tasks, at finalization and after it),
\* and exceeds that sum by exactly one while a task is in flight.
SentIsCompletedPlusFailed ==
    \A s \in Sessions :
        sess[s].stats_.tasks_sent =
            sess[s].stats_.tasks_completed + sess[s].stats_.tasks_failed
              + (IF TaskInFlight(sess[s]) THEN 1 ELSE 0)
\* a session has finished with one task failed and one completed while the other
\* has a task in flight
SentIsCompletedPlusFailedWitness ==
    \E s, o \in Sessions :
        /\ sess[s].pc = "done"
        /\ sess[s].stats_.tasks_failed = 1 /\ sess[s].stats_.tasks_completed = 1
        /\ sess[o].pc = "read_header" /\ sess[o].stats_.tasks_sent = 1

\* C37: once request_termination() has been called on a session, the session does
\* not begin sending a task it had not started sending: it does not come out of
\* get_next_task with a task, count it as sent and start the write of its header,
\* even if the pool hands it a task afterwards.
NoSendAfterTermination ==
    [][\A s \in Sessions :
          (sess[s].termination_requested_ /\ sess[s].pc # "write_header")
              => sess'[s].pc # "write_header"]_vars

\* ---- the session map ----
\* C35: a session is removed from the map and destroyed only after its coroutine
\* has finished finalization: whenever cleanup_completed_sessions can observe
\* is_completed() as true, the session's socket is closed and its coroutine has
\* returned, so that it makes no further access to the session.
CompletedMeansFinalized ==
    \A s \in Sessions :
        is_completed(sess[s]) => (~sess[s].sock_open /\ sess[s].pc = "done")

\* ---- the server's sessions ----
\* C38: after AsyncTransportServer::stop() has returned no session is left in a
\* non-terminal state: every session the server created has terminated and has
\* been reaped from active_sessions_ by the final maintenance pass.
StopLeavesNoSession ==
    srv.ctl = "stopped" => (srv.live = 0 /\ srv.completed = 0)

\* ---- the manager's locks ----
\* the thread t waits in std::mutex::lock for a mutex that is held
BlockedOn(t) ==
    IF lk.todo[t] # <<>> /\ Head(lk.todo[t]).op = "lock"
    THEN lk.held[Head(lk.todo[t]).m] ELSE "none"
\* the thread t is inside a "handle.resume()": a coroutine runs on it
InsideResume(t) == \E i \in 1..Len(lk.todo[t]) : lk.todo[t][i].op = "return"
\* C40: the manager never deadlocks on its locks: in no reachable state is there a
\* set of threads each waiting for a mutex held by a thread of the set (a thread
\* waiting for a mutex it holds itself included), so a continuation resumed
\* inline by add_task or by the I/O loop can call add_task and register_pending
\* without blocking on a lock of its own thread.
NoLockDeadlock ==
    \A S \in SUBSET LockThreads :
        S # {} => \E t \in S : BlockedOn(t) \notin S
\* a continuation resumed inline by the producer's add_task holds the pool's mutex
\* (it is inside its own add_task or get_next_task) while the statistics thread,
\* holding sessions_mutex_, waits for that mutex, the acceptor waits for
\* sessions_mutex_, and the I/O thread is inside a resume as well
NoLockDeadlockWitness ==
    /\ InsideResume("producer") /\ lk.held["mutex_"] = "producer"
    /\ BlockedOn("stats") = "producer" /\ lk.held["sessions_mutex_"] = "stats"
    /\ BlockedOn("acceptor") = "stats"
    /\ InsideResume("io") /\ BlockedOn("io") = "producer"

\* C36: whenever a session starts to read a response header, the bytes it has
\* consumed so far end at a frame boundary of the stream the peer sent, so the 12
\* bytes it takes are the header of a frame; this includes the iteration after a
\* task_id mismatch whose response announced a body
HeaderReadsAtFrameBoundary ==
    fr.pc = "read_header" => fr.pos \in FrameBoundaries(fr.sent)
====
